---------------------------- MODULE Spec2Model ----------------------------
(***************************************************************************)
(* Model of videoSummaryGo (src/main.go): the chunked transcription        *)
(* pipeline.                                                               *)
(*                                                                         *)
(* Sequential functions that only talk to external collaborators           *)
(* (chunkVideo, sentLlmPrompt, extractFrames, transcribeVideoLLM) are      *)
(* operators that take the collaborators' answers as an environment        *)
(* record and return the Go return values together with the trace of       *)
(* external calls they made and the scratch files they leave behind.       *)
(* The concurrent part (VideoSummary, processChunk and its two goroutines, *)
(* the shared error channel) is a state machine, one action per step.      *)
(*                                                                         *)
(* Strings are sequences of tokens; "" is <<>>.                            *)
(***************************************************************************)
EXTENDS Integers, Sequences, FiniteSets, TLC

VARIABLES
    \* ---- function-level specifications (SpecSeg, SpecPrompt, SpecScreen)
    fn,             \* which function is exercised: "batch" for Spec
    arg,            \* its inputs (environment record)
    ret,            \* <<>> before the call returns, <<result>> after
    \* ---- VideoSummary (Spec)
    pc,             \* position of the main goroutine
    numVideos,      \* len(videoPaths)
    chunkDuration,  \* the chunkDuration argument (seconds)
    diskOk,         \* whether appends to the transcript files succeed
    videoIndex,     \* loop variable of `for videoIndex, videoPath := range`
    chunks,         \* result of chunkVideo for the current video
    ci,             \* index of the current chunk in `for _, chunkData`
    audioPc,        \* position of the audio goroutine of processChunk
    videoPc,        \* position of the video goroutine of processChunk
    audioTranscript,\* local of the audio goroutine
    videoTranscript,\* local of the video goroutine
    errorChannel,   \* buffered channel of errors, capacity ErrorChannelCap
    chClosed,       \* close(errorChannel) has run
    logged,         \* errors printed by the final drain
    outputFile,     \* content of <base>_output.txt of the current video
    audioOutputFile,\* content of <base>_audio_output.txt
    videoOutputFile,\* content of <base>_video_output.txt
    openHandles,    \* output file handles opened and not yet closed
    fs,             \* chunk scratch artifacts (files, dirs) that exist
    removed,        \* number of os.Remove calls on each chunk artifact
    combinedPrompt, \* the prompt built for the summarization call
    \* ---- TranscribeVideoTesseractAPI (SpecOcr)
    ocrPc,          \* position of the calling goroutine
    frameIdx,       \* frames the `for _, framePath` loop has started
    workerPc,       \* position of the worker of each frame
    guard,          \* slots of the semaphore channel that are taken
    wg,             \* counter of the WaitGroup
    frameResults,   \* buffered channel of results, capacity len(framePaths)
    sentResults,    \* every result sent on frameResults, in sending order
    tempFiles,      \* frames whose ocr_*.jpg temp file exists
    combinedTranscript \* the strings.Builder of the result loop

ocrVars == <<ocrPc, frameIdx, workerPc, guard, wg, frameResults,
             sentResults, tempFiles, combinedTranscript>>

vars == <<ocrVars, fn, arg, ret, pc, numVideos, chunkDuration, diskOk,
          videoIndex,
          chunks, ci, audioPc, videoPc, audioTranscript, videoTranscript,
          errorChannel, chClosed, logged, outputFile, audioOutputFile,
          videoOutputFile, openHandles, fs, removed, combinedPrompt>>

batchVars == <<pc, numVideos, chunkDuration, diskOk, videoIndex,
          chunks, ci, audioPc, videoPc, audioTranscript, videoTranscript,
          errorChannel, chClosed, logged, outputFile, audioOutputFile,
          videoOutputFile, openHandles, fs, removed, combinedPrompt>>

-----------------------------------------------------------------------------
(* Bounds of the model *)

MaxDurSec == 3        \* probed durations have 0..MaxDurSec whole seconds
MaxChunkLen == 2      \* chunk lengths 1..MaxChunkLen seconds
MaxVideos == 2        \* videos discovered by one batch run
MaxRunChunks == 3     \* chunks of all videos of one batch run together
MaxFrames == 2        \* frames one extractFrames call can find
MaxParts == 2         \* parts of one candidate of a remote response
MaxCandidates == 2    \* candidates of one remote response
MaxCores == 2         \* runtime.NumCPU() is in 1..MaxCores, or is 9

(* Program constants *)

maxRetries == 5
ErrorChannelCap == 10

-----------------------------------------------------------------------------
(* Small helpers *)

RECURSIVE Concat(_)
Concat(ss) == IF ss = <<>> THEN <<>> ELSE Head(ss) \o Concat(Tail(ss))

\* number of occurrences of x in the sequence s
Occurrences(s, x) == Cardinality({i \in DOMAIN s : s[i] = x})

SeqsUpTo(S, n) == UNION {[1..k -> S] : k \in 0..n}

-----------------------------------------------------------------------------
(* chunkVideo: src/main.go 374-432 *)

\* A probed duration is whole + (frac ? 0.5 : 0) seconds.
Durations == [whole : 0..MaxDurSec, frac : BOOLEAN]

\* int(duration / float64(chunkDuration)): chunkDuration is an integer, so
\* the fractional half second never changes the truncated quotient.
TruncDiv(d, L) == d.whole \div L

\* int(duration) % chunkDuration
IntMod(d, L) == d.whole % L

\* main.go 398-401
NumChunks(d, L) ==
    IF IntMod(d, L) # 0 THEN TruncDiv(d, L) + 1 ELSE TruncDiv(d, L)

\* ceil(duration / chunkDuration), the mathematical value
CeilChunks(d, L) ==
    IF d.frac \/ d.whole % L # 0 THEN (d.whole \div L) + 1 ELSE d.whole \div L

ChunkTempDir(vi) == [kind |-> "dir", video |-> vi, chunk |-> -1]
ChunkVideoPath(vi, i) == [kind |-> "mp4", video |-> vi, chunk |-> i]
ChunkAudioPath(vi, i) == [kind |-> "wav", video |-> vi, chunk |-> i]

\* ChunkData, main.go 28-35 (Err is never set by chunkVideo)
ChunkData(vi, i) ==
    [VideoPath |-> ChunkVideoPath(vi, i), AudioPath |-> ChunkAudioPath(vi, i),
     ChunkNum |-> i, VideoIndex |-> vi, Err |-> FALSE]

Ev(o, x, y) == [op |-> o, a |-> x, b |-> y]

\* The answers of the external tools to one chunkVideo call:
\*   stage   how far the set-up gets: "nolookpath", "nomkdir", "probefail",
\*           "parsefail" or "ok"
\*   dur     the probed duration
\*   failAt  index of the first ffmpeg cut that exits non-zero, -1 for none
ChunkEnvs ==
    [stage : {"nolookpath", "nomkdir", "probefail", "parsefail", "ok"},
     dur : Durations, failAt : -1..MaxDurSec]

\* a variant of the loop that asks for chunk i at offset i instead of
\* i * chunkDuration
RECURSIVE CutLoop_StartAtIndex(_, _, _, _, _, _)
CutLoop_StartAtIndex(env, L, vi, n, i, acc) ==
    IF i >= n THEN acc
    ELSE LET cut == Ev("cut", i, L) IN
         IF env.failAt = i
         THEN [chunks |-> <<>>, err |-> TRUE,
               trace |-> Append(acc.trace, cut), made |-> acc.made]
         ELSE CutLoop_StartAtIndex(env, L, vi, n, i + 1,
                [chunks |-> Append(acc.chunks, ChunkData(vi, i)),
                 err |-> FALSE,
                 trace |-> Append(acc.trace, cut),
                 made |-> acc.made \cup {ChunkVideoPath(vi, i),
                                         ChunkAudioPath(vi, i)}])

\* The cut loop, main.go 405-429, from index i with the chunks made so far.
RECURSIVE CutLoop(_, _, _, _, _, _)
CutLoop(env, L, vi, n, i, acc) ==
    IF i >= n THEN acc
    ELSE LET cut == Ev("cut", i * L, L) IN
         IF env.failAt = i
         THEN [chunks |-> <<>>, err |-> TRUE,
               trace |-> Append(acc.trace, cut), made |-> acc.made]
         ELSE CutLoop(env, L, vi, n, i + 1,
                [chunks |-> Append(acc.chunks, ChunkData(vi, i)),
                 err |-> FALSE,
                 trace |-> Append(acc.trace, cut),
                 made |-> acc.made \cup {ChunkVideoPath(vi, i),
                                         ChunkAudioPath(vi, i)}])

\* a variant that removes the scratch directory when a cut fails
chunkVideo_RemovesDirOnCutFailure(env, L, vi) ==
    IF env.stage = "nolookpath"
    THEN [chunks |-> <<>>, err |-> TRUE,
          trace |-> <<Ev("lookpath", 0, 0)>>, made |-> {}]
    ELSE IF env.stage = "nomkdir"
    THEN [chunks |-> <<>>, err |-> TRUE,
          trace |-> <<Ev("lookpath", 0, 0), Ev("mkdirtemp", 0, 0)>>,
          made |-> {}]
    ELSE IF env.stage \in {"probefail", "parsefail"}
    THEN [chunks |-> <<>>, err |-> TRUE,
          trace |-> <<Ev("lookpath", 0, 0), Ev("mkdirtemp", 0, 0),
                      Ev("ffprobe", 0, 0), Ev("removeall", 0, 0)>>,
          made |-> {}]
    ELSE LET r == CutLoop(env, L, vi, NumChunks(env.dur, L), 0,
                    [chunks |-> <<>>, err |-> FALSE,
                     trace |-> <<Ev("lookpath", 0, 0), Ev("mkdirtemp", 0, 0),
                                 Ev("ffprobe", 0, 0)>>,
                     made |-> {ChunkTempDir(vi)}])
         IN IF r.err
            THEN [r EXCEPT !.made = {},
                           !.trace = Append(r.trace, Ev("removeall", 0, 0))]
            ELSE r

\* chunkVideo(videoPath, chunkDuration, videoIndex, baseName)
\* returns chunks, err, the external calls made, and the scratch artifacts
\* that exist when it returns.
chunkVideo(env, L, vi) ==
    IF env.stage = "nolookpath"
    THEN [chunks |-> <<>>, err |-> TRUE,
          trace |-> <<Ev("lookpath", 0, 0)>>, made |-> {}]
    ELSE IF env.stage = "nomkdir"
    THEN [chunks |-> <<>>, err |-> TRUE,
          trace |-> <<Ev("lookpath", 0, 0), Ev("mkdirtemp", 0, 0)>>,
          made |-> {}]
    ELSE IF env.stage \in {"probefail", "parsefail"}
    THEN [chunks |-> <<>>, err |-> TRUE,
          trace |-> <<Ev("lookpath", 0, 0), Ev("mkdirtemp", 0, 0),
                      Ev("ffprobe", 0, 0), Ev("removeall", 0, 0)>>,
          made |-> {}]
    ELSE CutLoop(env, L, vi, NumChunks(env.dur, L), 0,
                 [chunks |-> <<>>, err |-> FALSE,
                  trace |-> <<Ev("lookpath", 0, 0), Ev("mkdirtemp", 0, 0),
                              Ev("ffprobe", 0, 0)>>,
                  made |-> {ChunkTempDir(vi)}])

-----------------------------------------------------------------------------
(* sentLlmPrompt: src/main.go 328-371 *)

Newline == <<"\n">>

\* genai.Part: a genai.Text or something else (a blob, file data)
TextPart(t) == [isText |-> TRUE, text |-> t]
BlobPart == [isText |-> FALSE, text |-> <<>>]
Parts == {TextPart(<<"x">>), TextPart(<<"y">>), BlobPart}

\* a candidate: Content nil, or Content with its Parts
NilCandidate == [hasContent |-> FALSE, parts |-> <<>>]
Candidates(maxParts) ==
    {NilCandidate} \cup
    {[hasContent |-> TRUE, parts |-> ps] : ps \in SeqsUpTo(Parts, maxParts)}

\* the text parts of one candidate, in order (main.go 344-354)
RECURSIVE PartTexts(_)
PartTexts(ps) ==
    IF ps = <<>> THEN <<>>
    ELSE IF Head(ps).isText THEN <<Head(ps).text>> \o PartTexts(Tail(ps))
    ELSE PartTexts(Tail(ps))

\* a variant that reads the first candidate only
ResponseTexts_FirstCandidate(cands) ==
    IF cands = <<>> \/ ~Head(cands).hasContent THEN <<>>
    ELSE PartTexts(Head(cands).parts)

\* the text parts of a response, candidate by candidate (main.go 343-356)
RECURSIVE ResponseTexts(_)
ResponseTexts(cands) ==
    IF cands = <<>> THEN <<>>
    ELSE (IF Head(cands).hasContent THEN PartTexts(Head(cands).parts)
          ELSE <<>>) \o ResponseTexts(Tail(cands))

\* The remote service as sentLlmPrompt sees it: the first failsFirst calls
\* of model.GenerateContent return an error, every later call returns resp.
GenerateContent(env, attempt) ==
    IF attempt < env.failsFirst
    THEN [err |-> TRUE, resp |-> <<>>]
    ELSE [err |-> FALSE, resp |-> env.resp]

\* a variant that writes without testing file for nil
SinkWrites_IgnoreNil(texts, hasSink) ==
    [i \in DOMAIN texts |-> texts[i] \o Newline]

\* fmt.Fprintln(file, text) for every text part, when file != nil
SinkWrites(texts, hasSink) ==
    IF hasSink THEN [i \in DOMAIN texts |-> texts[i] \o Newline] ELSE <<>>

\* a variant of the loop that takes a response without text for a failed
\* attempt
RECURSIVE sentLlmPromptLoop_RetryOnEmpty(_, _, _)
sentLlmPromptLoop_RetryOnEmpty(env, hasSink, attempt) ==
    IF attempt > maxRetries
    THEN [result |-> <<>>, trace |-> <<>>, sink |-> <<>>]
    ELSE LET r == GenerateContent(env, attempt) IN
         IF ~r.err /\ ResponseTexts(r.resp) # <<>>
         THEN LET texts == ResponseTexts(r.resp)
                  w == SinkWrites(texts, hasSink)
              IN [result |-> Concat(texts),
                  trace |-> <<"generate">> \o [i \in DOMAIN w |-> "write"],
                  sink |-> w]
         ELSE IF attempt < maxRetries
         THEN LET rest == sentLlmPromptLoop_RetryOnEmpty(env, hasSink,
                                                         attempt + 1)
              IN [result |-> rest.result,
                  trace |-> <<"generate", "sleep">> \o rest.trace,
                  sink |-> rest.sink]
         ELSE [result |-> <<>>, trace |-> <<"generate">>, sink |-> <<>>]

\* a variant of the loop that waits after every failed attempt, the last
\* included
RECURSIVE sentLlmPromptLoop_SleepAfterLast(_, _, _)
sentLlmPromptLoop_SleepAfterLast(env, hasSink, attempt) ==
    IF attempt > maxRetries
    THEN [result |-> <<>>, trace |-> <<>>, sink |-> <<>>]
    ELSE LET r == GenerateContent(env, attempt) IN
         IF ~r.err
         THEN LET texts == ResponseTexts(r.resp)
                  w == SinkWrites(texts, hasSink)
              IN [result |-> Concat(texts),
                  trace |-> <<"generate">> \o [i \in DOMAIN w |-> "write"],
                  sink |-> w]
         ELSE LET rest == sentLlmPromptLoop_SleepAfterLast(env, hasSink,
                                                           attempt + 1)
              IN [result |-> rest.result,
                  trace |-> <<"generate", "sleep">> \o rest.trace,
                  sink |-> rest.sink]

\* The for loop of sentLlmPrompt from `attempt` on.  result is the returned
\* string, trace the calls made ("generate", "sleep", "write"), sink the
\* lines written to file.
RECURSIVE sentLlmPromptLoop(_, _, _)
sentLlmPromptLoop(env, hasSink, attempt) ==
    IF attempt > maxRetries
    THEN [result |-> <<>>, trace |-> <<>>, sink |-> <<>>]
    ELSE LET r == GenerateContent(env, attempt) IN
         IF ~r.err
         THEN LET texts == ResponseTexts(r.resp)
                  w == SinkWrites(texts, hasSink)
              IN [result |-> Concat(texts),
                  trace |-> <<"generate">> \o [i \in DOMAIN w |-> "write"],
                  sink |-> w]
         ELSE IF attempt < maxRetries
         THEN LET rest == sentLlmPromptLoop(env, hasSink, attempt + 1)
              IN [result |-> rest.result,
                  trace |-> <<"generate", "sleep">> \o rest.trace,
                  sink |-> rest.sink]
         ELSE [result |-> <<>>, trace |-> <<"generate">>, sink |-> <<>>]

\* a variant whose attempt counter starts at 1
sentLlmPrompt_FromOne(env, hasSink) == sentLlmPromptLoop(env, hasSink, 1)

sentLlmPrompt(env, hasSink) == sentLlmPromptLoop(env, hasSink, 0)

-----------------------------------------------------------------------------
(* extractFrames: src/main.go 467-499 *)

\* The answers to one extractFrames call: whether os.MkdirTemp works,
\* whether ffmpeg exits 0, and how many frame_NNNN.jpg files it wrote.
ExtractEnvs == [mkdir : BOOLEAN, ffmpeg : BOOLEAN, nframes : 0..MaxFrames]

\* framePaths are the frame numbers 1..nframes; dirExists tells whether the
\* scratch directory made by this call exists when it returns.
extractFrames(env) ==
    IF ~env.mkdir
    THEN [framePaths |-> <<>>, err |-> TRUE, trace |-> <<"mkdirtemp">>,
          dirExists |-> FALSE]
    ELSE IF ~env.ffmpeg
    THEN [framePaths |-> <<>>, err |-> TRUE,
          trace |-> <<"mkdirtemp", "ffmpeg", "removeall">>,
          dirExists |-> FALSE]
    ELSE [framePaths |-> [i \in 1..env.nframes |-> i], err |-> FALSE,
          trace |-> <<"mkdirtemp", "ffmpeg", "walkdir">>,
          dirExists |-> TRUE]

-----------------------------------------------------------------------------
(* TranscribeVideoTesseractAPI: src/main.go 502-621, its result loop *)

\* What the worker of one frame sends on frameResults.
FrameResults(frame) ==
    {[frame |-> frame, err |-> TRUE, text |-> <<>>],
     [frame |-> frame, err |-> FALSE, text |-> <<"frame", ToString(frame)>>],
     [frame |-> frame, err |-> FALSE, text |-> <<>>]}

\* The sequences frameResults can hold once all workers are done: one
\* result per frame, in any order of delivery.
Deliveries(framePaths) ==
    {d \in [DOMAIN framePaths -> UNION {FrameResults(f) : f \in DOMAIN framePaths}] :
        \A f \in DOMAIN framePaths : \E i \in DOMAIN d : d[i].frame = f}

\* main.go 611-620: skip the errors, append text and "\n" for the others
RECURSIVE CollectResults(_)
CollectResults(delivered) ==
    IF delivered = <<>> THEN <<>>
    ELSE (IF Head(delivered).err THEN <<>>
          ELSE Head(delivered).text \o Newline)
         \o CollectResults(Tail(delivered))

\* always a nil error (main.go 620)
TranscribeVideoTesseractAPI(delivered) ==
    [text |-> CollectResults(delivered), err |-> FALSE, trace |-> <<"tesseract">>]

-----------------------------------------------------------------------------
(* transcribeVideoLLM: src/main.go 624-679 *)

\* a variant that attempts the frame extraction a second time when the
\* first attempt fails
FallbackAfterUploadFailure_Twice(env) ==
    LET ef == extractFrames(env.extract) IN
    IF ef.err
    THEN [text |-> <<>>, err |-> TRUE, trace |-> ef.trace \o ef.trace,
          framesDir |-> ef.dirExists]
    ELSE LET t == TranscribeVideoTesseractAPI(env.delivered) IN
         [text |-> t.text, err |-> FALSE,
          trace |-> ef.trace \o t.trace \o
                    (IF Len(ef.framePaths) > 0 THEN <<"removeall">> ELSE <<>>),
          framesDir |-> IF Len(ef.framePaths) > 0 THEN FALSE ELSE ef.dirExists]

\* The fallback of the upload-failure branch, main.go 629-642: the frames
\* are cleaned up after the Tesseract error check.
FallbackAfterUploadFailure(env) ==
    LET ef == extractFrames(env.extract) IN
    IF ef.err
    THEN [text |-> <<>>, err |-> TRUE, trace |-> ef.trace,
          framesDir |-> ef.dirExists]
    ELSE LET t == TranscribeVideoTesseractAPI(env.delivered) IN
         IF t.err
         THEN [text |-> <<>>, err |-> TRUE, trace |-> ef.trace \o t.trace,
               framesDir |-> ef.dirExists]
         ELSE IF Len(ef.framePaths) > 0
         THEN [text |-> t.text, err |-> FALSE,
               trace |-> ef.trace \o t.trace \o <<"removeall">>,
               framesDir |-> FALSE]
         ELSE [text |-> t.text, err |-> FALSE,
               trace |-> ef.trace \o t.trace, framesDir |-> ef.dirExists]

\* The fallback of the empty-prompt branch, main.go 661-673: the frames are
\* cleaned up before the Tesseract error check.
FallbackAfterEmptyPrompt(env) ==
    LET ef == extractFrames(env.extract) IN
    IF ef.err
    THEN [text |-> <<>>, err |-> TRUE, trace |-> ef.trace,
          framesDir |-> ef.dirExists]
    ELSE LET t == TranscribeVideoTesseractAPI(env.delivered)
             cleaned == Len(ef.framePaths) > 0
             tr == ef.trace \o t.trace
                     \o (IF cleaned THEN <<"removeall">> ELSE <<>>)
             dir == IF cleaned THEN FALSE ELSE ef.dirExists
         IN IF t.err
            THEN [text |-> <<>>, err |-> TRUE, trace |-> tr, framesDir |-> dir]
            ELSE [text |-> t.text, err |-> FALSE, trace |-> tr,
                  framesDir |-> dir]

\* a variant that runs the fallback whenever the prompt needed a retry
transcribeVideoLLM_FallbackOnRetry(env) ==
    IF ~env.upload
    THEN LET fb == FallbackAfterUploadFailure(env)
         IN [text |-> fb.text, err |-> fb.err,
             trace |-> <<"upload">> \o fb.trace, framesDir |-> fb.framesDir]
    ELSE LET p == sentLlmPrompt(env.prompt, FALSE) IN
         IF p.result = <<>> \/ Occurrences(p.trace, "sleep") > 0
         THEN LET fb == FallbackAfterEmptyPrompt(env)
              IN [text |-> fb.text, err |-> fb.err,
                  trace |-> <<"upload", "activate">> \o p.trace \o fb.trace
                            \o <<"delete">>,
                  framesDir |-> fb.framesDir]
         ELSE [text |-> p.result, err |-> FALSE,
               trace |-> <<"upload", "activate">> \o p.trace \o <<"delete">>,
               framesDir |-> FALSE]

\* a variant that deletes the uploaded file at the end of the function body
\* instead of in a deferred call: the early error return skips it
transcribeVideoLLM_DeleteNotDeferred(env) ==
    IF ~env.upload
    THEN LET fb == FallbackAfterUploadFailure(env)
         IN [text |-> fb.text, err |-> fb.err,
             trace |-> <<"upload">> \o fb.trace, framesDir |-> fb.framesDir]
    ELSE LET p == sentLlmPrompt(env.prompt, FALSE) IN
         IF p.result = <<>>
         THEN LET fb == FallbackAfterEmptyPrompt(env)
              IN [text |-> fb.text, err |-> fb.err,
                  trace |-> <<"upload", "activate">> \o p.trace \o fb.trace
                            \o (IF fb.err THEN <<>> ELSE <<"delete">>),
                  framesDir |-> fb.framesDir]
         ELSE [text |-> p.result, err |-> FALSE,
               trace |-> <<"upload", "activate">> \o p.trace \o <<"delete">>,
               framesDir |-> FALSE]

\* a variant that releases the uploaded file as soon as the prompt has
\* returned, before the fallback
transcribeVideoLLM_DeleteBeforeFallback(env) ==
    IF ~env.upload
    THEN LET fb == FallbackAfterUploadFailure(env)
         IN [text |-> fb.text, err |-> fb.err,
             trace |-> <<"upload">> \o fb.trace, framesDir |-> fb.framesDir]
    ELSE LET p == sentLlmPrompt(env.prompt, FALSE) IN
         IF p.result = <<>>
         THEN LET fb == FallbackAfterEmptyPrompt(env)
              IN [text |-> fb.text, err |-> fb.err,
                  trace |-> <<"upload", "activate">> \o p.trace
                            \o <<"delete">> \o fb.trace,
                  framesDir |-> fb.framesDir]
         ELSE [text |-> p.result, err |-> FALSE,
               trace |-> <<"upload", "activate">> \o p.trace \o <<"delete">>,
               framesDir |-> FALSE]

\* env: upload (does client.UploadFileFromPath succeed), prompt (the remote
\* service's answers to the prompt), extract, delivered (the fallback's
\* collaborators).  The deferred client.DeleteFile runs last on every path
\* after line 648.
transcribeVideoLLM(env) ==
    IF ~env.upload
    THEN LET fb == FallbackAfterUploadFailure(env)
         IN [text |-> fb.text, err |-> fb.err,
             trace |-> <<"upload">> \o fb.trace, framesDir |-> fb.framesDir]
    ELSE LET p == sentLlmPrompt(env.prompt, FALSE) IN
         IF p.result = <<>>
         THEN LET fb == FallbackAfterEmptyPrompt(env)
              IN [text |-> fb.text, err |-> fb.err,
                  trace |-> <<"upload", "activate">> \o p.trace \o fb.trace
                            \o <<"delete">>,
                  framesDir |-> fb.framesDir]
         ELSE [text |-> p.result, err |-> FALSE,
               trace |-> <<"upload", "activate">> \o p.trace \o <<"delete">>,
               framesDir |-> FALSE]

-----------------------------------------------------------------------------
(* Function-level specifications: Init draws the inputs of one call, the    *)
(* action makes the call.                                                  *)

\* TranscribeVideoTesseractAPI is not running.
OcrOff ==
    /\ ocrPc = "off" /\ frameIdx = 0 /\ workerPc = <<>>
    /\ guard = 0 /\ wg = 0 /\ frameResults = <<>> /\ sentResults = <<>>
    /\ tempFiles = {} /\ combinedTranscript = <<>>

\* VideoSummary is not running.
BatchOff ==
    /\ pc = "off" /\ numVideos = 0 /\ chunkDuration = 1 /\ diskOk = TRUE
    /\ videoIndex = 0 /\ chunks = <<>> /\ ci = 0
    /\ audioPc = "idle" /\ videoPc = "idle"
    /\ audioTranscript = <<>> /\ videoTranscript = <<>>
    /\ errorChannel = <<>> /\ chClosed = FALSE /\ logged = <<>>
    /\ outputFile = <<>> /\ audioOutputFile = <<>> /\ videoOutputFile = <<>>
    /\ openHandles = 0 /\ fs = {} /\ removed = <<>>
    /\ combinedPrompt = <<>>

Returned == Len(ret) = 1

\* ---- chunkVideo
SegInit ==
    /\ fn = "chunkVideo"
    /\ arg \in [env : ChunkEnvs, L : 1..MaxChunkLen, vi : 1..MaxVideos]
    /\ ret = <<>>
    /\ BatchOff /\ OcrOff

SegCall ==
    /\ fn = "chunkVideo" /\ ret = <<>>
    /\ ret' = <<chunkVideo(arg.env, arg.L, arg.vi)>>
    /\ UNCHANGED <<fn, arg>>
    /\ UNCHANGED batchVars
    /\ UNCHANGED ocrVars

SegNext == SegCall

SpecSeg == SegInit /\ [][SegNext]_vars

\* ---- sentLlmPrompt
Responses == SeqsUpTo(Candidates(MaxParts), MaxCandidates)

PromptEnvs == [failsFirst : 0..(maxRetries + 1), resp : Responses]

PromptInit ==
    /\ fn = "sentLlmPrompt"
    /\ arg \in [env : PromptEnvs, hasSink : BOOLEAN]
    /\ ret = <<>>
    /\ BatchOff /\ OcrOff

PromptCall ==
    /\ fn = "sentLlmPrompt" /\ ret = <<>>
    /\ ret' = <<sentLlmPrompt(arg.env, arg.hasSink)>>
    /\ UNCHANGED <<fn, arg>>
    /\ UNCHANGED batchVars
    /\ UNCHANGED ocrVars

PromptNext == PromptCall

SpecPrompt == PromptInit /\ [][PromptNext]_vars

\* ---- transcribeVideoLLM
ScreenPromptEnvs ==
    [failsFirst : 0..(maxRetries + 1), resp : SeqsUpTo(Candidates(1), 1)]

ScreenEnvs ==
    UNION {[upload : BOOLEAN, prompt : ScreenPromptEnvs, extract : {x},
            delivered : Deliveries(extractFrames(x).framePaths)] :
           x \in ExtractEnvs}

ScreenInit ==
    /\ fn = "transcribeVideoLLM"
    /\ arg \in ScreenEnvs
    /\ ret = <<>>
    /\ BatchOff /\ OcrOff

ScreenCall ==
    /\ fn = "transcribeVideoLLM" /\ ret = <<>>
    /\ ret' = <<transcribeVideoLLM(arg)>>
    /\ UNCHANGED <<fn, arg>>
    /\ UNCHANGED batchVars
    /\ UNCHANGED ocrVars

ScreenNext == ScreenCall

SpecScreen == ScreenInit /\ [][ScreenNext]_vars

-----------------------------------------------------------------------------
(* TranscribeVideoTesseractAPI, step by step: src/main.go 502-621.  The     *)
(* calling goroutine starts one worker per frame behind the semaphore       *)
(* `guard`, waits for all of them and collects what they sent.             *)

\* How the worker of one frame ends: the step that fails, or "ok" (the OCR
\* engine printed text) or "blank" (it printed nothing).
FrameOutcomes ==
    {"open", "decode", "encode", "createtemp", "write", "close",
     "tesseract", "ok", "blank"}

\* the outcomes in which os.CreateTemp succeeded (main.go 557-566)
TempCreated == {"write", "close", "tesseract", "ok", "blank"}

\* what the worker of frame f sends on frameResults
WorkerResult(f, outcome) ==
    IF outcome = "ok"
    THEN [frame |-> f, err |-> FALSE, text |-> <<"frame", ToString(f)>>]
    ELSE IF outcome = "blank"
    THEN [frame |-> f, err |-> FALSE, text |-> <<>>]
    ELSE [frame |-> f, err |-> TRUE, text |-> <<>>]

\* main.go 511-514
numWorkers(numCPU) == IF numCPU > 8 THEN 8 ELSE numCPU

\* The inputs of one call: the outcome of every frame of framePaths and
\* the number of cores of the machine.
OcrEnvs ==
    [frames : SeqsUpTo(FrameOutcomes, MaxFrames),
     numCPU : (1..MaxCores) \cup {9}]

OcrInit ==
    /\ fn = "TranscribeVideoTesseractAPI"
    /\ arg \in OcrEnvs
    /\ ret = <<>>
    /\ BatchOff
    /\ ocrPc = (IF Len(arg.frames) = 0 THEN "wait" ELSE "add")
    /\ frameIdx = 0
    /\ workerPc = [f \in DOMAIN arg.frames |-> "notstarted"]
    /\ guard = 0 /\ wg = 0 /\ frameResults = <<>> /\ sentResults = <<>>
    /\ tempFiles = {} /\ combinedTranscript = <<>>

ocrUnchanged == UNCHANGED <<fn, arg>> /\ UNCHANGED batchVars

\* main.go 518: wg.Add(1) at the top of the loop body, before the caller
\* asks for a slot
WgAdd ==
    /\ fn = "TranscribeVideoTesseractAPI" /\ ocrPc = "add"
    /\ wg' = wg + 1
    /\ ocrPc' = "acquire"
    /\ UNCHANGED <<ret, frameIdx, workerPc, guard, frameResults, sentResults,
                   tempFiles, combinedTranscript>>
    /\ ocrUnchanged

\* a variant whose semaphore never blocks
AcquireSlot_Unbounded ==
    /\ fn = "TranscribeVideoTesseractAPI" /\ ocrPc = "acquire"
    /\ guard' = guard + 1
    /\ ocrPc' = "go"
    /\ UNCHANGED <<ret, frameIdx, workerPc, wg, frameResults, sentResults,
                   tempFiles, combinedTranscript>>
    /\ ocrUnchanged

\* main.go 519: the send on guard, which blocks while numWorkers slots are
\* taken
AcquireSlot ==
    /\ fn = "TranscribeVideoTesseractAPI" /\ ocrPc = "acquire"
    /\ guard < numWorkers(arg.numCPU)
    /\ guard' = guard + 1
    /\ ocrPc' = "go"
    /\ UNCHANGED <<ret, frameIdx, workerPc, wg, frameResults, sentResults,
                   tempFiles, combinedTranscript>>
    /\ ocrUnchanged

\* main.go 521: the go statement for the next frame
Go ==
    /\ fn = "TranscribeVideoTesseractAPI" /\ ocrPc = "go"
    /\ workerPc' = [workerPc EXCEPT ![frameIdx + 1] = "open"]
    /\ frameIdx' = frameIdx + 1
    /\ ocrPc' = (IF frameIdx + 1 = Len(arg.frames) THEN "wait" ELSE "add")
    /\ UNCHANGED <<ret, guard, wg, frameResults, sentResults, tempFiles,
                   combinedTranscript>>
    /\ ocrUnchanged

\* a variant whose result channel has one slot per worker of the pool
SendResult_BufferOfWorkers(r) ==
    /\ Len(frameResults) < numWorkers(arg.numCPU)
    /\ frameResults' = Append(frameResults, r)
    /\ sentResults' = Append(sentResults, r)

\* the send of a result: the channel has room for one result per frame
SendResult(r) ==
    /\ Len(frameResults) < Len(arg.frames)
    /\ frameResults' = Append(frameResults, r)
    /\ sentResults' = Append(sentResults, r)

\* main.go 526-566: open, decode, encode and os.CreateTemp.  A failure
\* sends the error and returns; otherwise the temp file exists and its
\* removal is deferred.
WorkerPrepare(f) ==
    /\ fn = "TranscribeVideoTesseractAPI" /\ workerPc[f] = "open"
    /\ IF arg.frames[f] \in TempCreated
       THEN /\ tempFiles' = tempFiles \cup {f}
            /\ workerPc' = [workerPc EXCEPT ![f] = "ocr"]
            /\ UNCHANGED <<frameResults, sentResults>>
       ELSE /\ SendResult(WorkerResult(f, arg.frames[f]))
            /\ workerPc' = [workerPc EXCEPT ![f] = "release"]
            /\ UNCHANGED tempFiles
    /\ UNCHANGED <<ret, ocrPc, frameIdx, guard, wg, combinedTranscript>>
    /\ ocrUnchanged

\* a variant in which a failed write or close of the temp file returns past
\* the removal
WorkerOcr_RemoveNotDeferred(f) ==
    /\ fn = "TranscribeVideoTesseractAPI" /\ workerPc[f] = "ocr"
    /\ SendResult(WorkerResult(f, arg.frames[f]))
    /\ workerPc' = [workerPc EXCEPT ![f] =
                        IF arg.frames[f] \in {"write", "close"}
                        THEN "release" ELSE "remove"]
    /\ UNCHANGED <<ret, ocrPc, frameIdx, guard, wg, tempFiles,
                   combinedTranscript>>
    /\ ocrUnchanged

\* main.go 568-602: write and close the temp file, run tesseract on it and
\* send the error or the text
WorkerOcr(f) ==
    /\ fn = "TranscribeVideoTesseractAPI" /\ workerPc[f] = "ocr"
    /\ SendResult(WorkerResult(f, arg.frames[f]))
    /\ workerPc' = [workerPc EXCEPT ![f] = "remove"]
    /\ UNCHANGED <<ret, ocrPc, frameIdx, guard, wg, tempFiles,
                   combinedTranscript>>
    /\ ocrUnchanged

\* main.go 566: the deferred os.Remove(tempFilePath), the first deferred
\* call to run
WorkerRemove(f) ==
    /\ fn = "TranscribeVideoTesseractAPI" /\ workerPc[f] = "remove"
    /\ tempFiles' = tempFiles \ {f}
    /\ workerPc' = [workerPc EXCEPT ![f] = "release"]
    /\ UNCHANGED <<ret, ocrPc, frameIdx, guard, wg, frameResults,
                   sentResults, combinedTranscript>>
    /\ ocrUnchanged

\* main.go 523: the deferred receive from guard releases the slot
WorkerRelease(f) ==
    /\ fn = "TranscribeVideoTesseractAPI" /\ workerPc[f] = "release"
    /\ guard' = guard - 1
    /\ workerPc' = [workerPc EXCEPT ![f] = "wgdone"]
    /\ UNCHANGED <<ret, ocrPc, frameIdx, wg, frameResults, sentResults,
                   tempFiles, combinedTranscript>>
    /\ ocrUnchanged

\* main.go 522: the deferred wg.Done(), the last deferred call to run
WorkerDone(f) ==
    /\ fn = "TranscribeVideoTesseractAPI" /\ workerPc[f] = "wgdone"
    /\ wg' = wg - 1
    /\ workerPc' = [workerPc EXCEPT ![f] = "done"]
    /\ UNCHANGED <<ret, ocrPc, frameIdx, guard, frameResults, sentResults,
                   tempFiles, combinedTranscript>>
    /\ ocrUnchanged

\* main.go 607-608: wg.Wait() returns when the counter is zero, then the
\* channel is closed
WaitAndClose ==
    /\ fn = "TranscribeVideoTesseractAPI" /\ ocrPc = "wait"
    /\ wg = 0
    /\ ocrPc' = "collect"
    /\ UNCHANGED <<ret, frameIdx, workerPc, guard, wg, frameResults,
                   sentResults, tempFiles, combinedTranscript>>
    /\ ocrUnchanged

\* a variant whose result loop ends at the first error it receives
Collect_StopAtError ==
    /\ fn = "TranscribeVideoTesseractAPI" /\ ocrPc = "collect"
    /\ frameResults # <<>>
    /\ frameResults' =
          (IF Head(frameResults).err THEN <<>> ELSE Tail(frameResults))
    /\ combinedTranscript' =
          combinedTranscript \o CollectResults(<<Head(frameResults)>>)
    /\ UNCHANGED <<ret, ocrPc, frameIdx, workerPc, guard, wg, sentResults,
                   tempFiles>>
    /\ ocrUnchanged

\* a variant that receives the result sent last first
Collect_LastFirst ==
    /\ fn = "TranscribeVideoTesseractAPI" /\ ocrPc = "collect"
    /\ frameResults # <<>>
    /\ frameResults' = SubSeq(frameResults, 1, Len(frameResults) - 1)
    /\ combinedTranscript' =
          combinedTranscript
              \o CollectResults(<<frameResults[Len(frameResults)]>>)
    /\ UNCHANGED <<ret, ocrPc, frameIdx, workerPc, guard, wg, sentResults,
                   tempFiles>>
    /\ ocrUnchanged

\* main.go 611-618: one iteration of the range over the closed channel
Collect ==
    /\ fn = "TranscribeVideoTesseractAPI" /\ ocrPc = "collect"
    /\ frameResults # <<>>
    /\ frameResults' = Tail(frameResults)
    /\ combinedTranscript' =
          combinedTranscript \o CollectResults(<<Head(frameResults)>>)
    /\ UNCHANGED <<ret, ocrPc, frameIdx, workerPc, guard, wg, sentResults,
                   tempFiles>>
    /\ ocrUnchanged

\* main.go 620: the range ends on the empty closed channel
OcrReturn ==
    /\ fn = "TranscribeVideoTesseractAPI" /\ ocrPc = "collect"
    /\ frameResults = <<>>
    /\ ret' = <<[text |-> combinedTranscript, err |-> FALSE]>>
    /\ ocrPc' = "returned"
    /\ UNCHANGED <<frameIdx, workerPc, guard, wg, frameResults, sentResults,
                   tempFiles, combinedTranscript>>
    /\ ocrUnchanged

OcrNext ==
    \/ WgAdd \/ AcquireSlot \/ Go \/ WaitAndClose \/ Collect \/ OcrReturn
    \/ \E f \in DOMAIN workerPc : WorkerPrepare(f)
    \/ \E f \in DOMAIN workerPc : WorkerOcr(f)
    \/ \E f \in DOMAIN workerPc : WorkerRemove(f)
    \/ \E f \in DOMAIN workerPc : WorkerRelease(f)
    \/ \E f \in DOMAIN workerPc : WorkerDone(f)

SpecOcr == OcrInit /\ [][OcrNext]_vars

\* the same machine with a scheduler that lets a goroutine that can take a
\* step take it, and OCR subprocesses that return
FairSpecOcr == OcrInit /\ [][OcrNext]_vars /\ WF_vars(OcrNext)

-----------------------------------------------------------------------------
(* VideoSummary and processChunk: src/main.go 682-907 *)

\* an entry of an output file
ChunkEntry(chunk, text) ==
    [kind |-> "chunk", VideoIndex |-> chunk.VideoIndex,
     Chunk |-> chunk.ChunkNum, Text |-> text]
MarkerEntry(vi) ==
    [kind |-> "marker", VideoIndex |-> vi, Chunk |-> -1,
     Text |-> <<"PROCESSING COMPLETE">>]
SummaryLine(vi, line) ==
    [kind |-> "summary", VideoIndex |-> vi, Chunk |-> -1, Text |-> line]

\* an error on the shared channel
RunError(src, chunk) ==
    [src |-> src, VideoIndex |-> chunk.VideoIndex, Chunk |-> chunk.ChunkNum]

AudioPlaceholder(chunk) ==
    <<"Audio transcription failed", ToString(chunk.VideoIndex),
      ToString(chunk.ChunkNum)>>
VideoPlaceholder(chunk) ==
    <<"Video transcription failed", ToString(chunk.VideoIndex),
      ToString(chunk.ChunkNum)>>

\* ---- the summarization prompt, main.go 859-890
\* A formatted text is a sequence of pieces: a literal of the template, or
\* an operand in the place of a verb, or an operand left over.
Lit(name) == [piece |-> name, content |-> <<>>]
Verb == [piece |-> "%s", content |-> <<>>]
Operand(a) == [piece |-> "operand", content |-> a]
Extra(a) == [piece |-> "%!(EXTRA string)", content |-> a]
Missing == [piece |-> "%!s(MISSING)", content |-> <<>>]

\* a variant that drops the operands left over
RECURSIVE Sprintf_DropExtra(_, _)
Sprintf_DropExtra(template, operands) ==
    IF template = <<>>
    THEN <<>>
    ELSE IF Head(template) = Verb
    THEN IF operands = <<>>
         THEN <<Missing>> \o Sprintf_DropExtra(Tail(template), <<>>)
         ELSE <<Operand(Head(operands))>>
                 \o Sprintf_DropExtra(Tail(template), Tail(operands))
    ELSE <<Head(template)>> \o Sprintf_DropExtra(Tail(template), operands)

\* fmt.Sprintf(template, operands...): every %s takes the next operand in
\* order; a verb without operand prints MISSING, operands without verb are
\* appended as EXTRA
RECURSIVE Sprintf(_, _)
Sprintf(template, operands) ==
    IF template = <<>>
    THEN [i \in DOMAIN operands |-> Extra(operands[i])]
    ELSE IF Head(template) = Verb
    THEN IF operands = <<>>
         THEN <<Missing>> \o Sprintf(Tail(template), <<>>)
         ELSE <<Operand(Head(operands))>>
                 \o Sprintf(Tail(template), Tail(operands))
    ELSE <<Head(template)>> \o Sprintf(Tail(template), operands)

\* main.go 862-884: the template with and without user context
promptTemplate(ctx) ==
    IF ctx # <<>>
    THEN <<Lit("Context from user about this video:"), Verb,
           Lit("Here is a raw transcription of a video."),
           Lit("--- RAW TRANSCRIPTION of Audio ---"), Verb,
           Lit("--- RAW TRANSCRIPTION of Video Text ---"), Verb,
           Lit("Please rewrite it clearly")>>
    ELSE <<Lit("Here is a raw transcription of a video."),
           Lit("--- RAW TRANSCRIPTION of Audio ---"), Verb,
           Lit("--- RAW TRANSCRIPTION of Video Text ---"), Verb,
           Lit("Please rewrite it clearly")>>

\* main.go 886: the three operands are passed with either template
combinedPromptText(ctx, audioContent, videoContent) ==
    Sprintf(promptTemplate(ctx), <<ctx, audioContent, videoContent>>)

\* main.go 969 and 987: main passes "" as inputFromUser
inputFromUser == <<>>

\* the chunk processChunk is working on
CurChunk == chunks[ci + 1]

\* os.Remove(path): one more call on path, the file is gone
RemoveCalls(path) == IF path \in DOMAIN removed THEN removed[path] ELSE 0
Remove(path) ==
    /\ fs' = fs \ {path}
    /\ removed' = [q \in DOMAIN removed \cup {path} |->
                     IF q = path THEN RemoveCalls(path) + 1 ELSE removed[q]]

\* `continue`: on to the next video
NextVideo ==
    /\ videoIndex' = videoIndex + 1
    /\ pc' = "video"

\* chunks cut so far in this run
ChunksCut ==
    Cardinality({f \in fs \cup DOMAIN removed : f.kind = "mp4"})

\* the environments VideoSummary's calls are exercised with: the videos of
\* one run have at most MaxRunChunks chunks together; an environment whose
\* probe fails has no duration, and a failing cut is one that is attempted
BatchChunkEnvs ==
    {e \in ChunkEnvs :
        /\ ChunksCut + NumChunks(e.dur, chunkDuration) <= MaxRunChunks
        /\ e.stage # "ok" => (e.dur = [whole |-> 0, frac |-> FALSE]
                               /\ e.failAt = -1)
        /\ e.failAt < NumChunks(e.dur, chunkDuration)}

BatchResponses ==
    {<<[hasContent |-> TRUE, parts |-> <<TextPart(<<"x">>)>>]>>}

\* the screen text comes from the remote service ("x"), from an OCR
\* fallback that finds no frame or whose only frame cannot be recognized
\* (""), or the frame extraction fails (no directory, or ffmpeg fails);
\* the parts of an environment that the call never consults are fixed
BatchScreenEnvs ==
    {e \in [upload : BOOLEAN,
            prompt : [failsFirst : {0, maxRetries + 1},
                      resp : BatchResponses],
            extract : [mkdir : BOOLEAN, ffmpeg : BOOLEAN, nframes : {0, 1}],
            delivered : {<<>>, <<WorkerResult(1, "tesseract")>>}] :
        /\ ~e.upload => e.prompt.failsFirst = 0
        /\ (e.upload /\ e.prompt.failsFirst = 0) => e.extract.mkdir
        /\ ~e.extract.mkdir => e.extract.ffmpeg
        /\ (e.upload /\ e.prompt.failsFirst = 0) => e.extract.ffmpeg
        /\ ~(e.extract.mkdir /\ e.extract.ffmpeg) => e.extract.nframes = 0
        /\ (e.upload /\ e.prompt.failsFirst = 0) => e.extract.nframes = 0
        /\ Len(e.delivered) = e.extract.nframes}

\* the summarization succeeds at once or fails on every attempt
BatchPromptEnvs ==
    [failsFirst : {0, maxRetries + 1}, resp : BatchResponses]

\* The state at the entry of VideoSummary.  The run is exercised with
\* one-second chunks, so a video of d whole seconds has d chunks.
BatchInit ==
    /\ fn = "batch" /\ arg = <<>> /\ ret = <<>>
    /\ OcrOff
    /\ pc = "start"
    /\ numVideos = 0
    /\ chunkDuration = 1
    /\ diskOk \in BOOLEAN
    /\ videoIndex = 0 /\ chunks = <<>> /\ ci = 0
    /\ audioPc = "idle" /\ videoPc = "idle"
    /\ audioTranscript = <<>> /\ videoTranscript = <<>>
    /\ errorChannel = <<>> /\ chClosed = FALSE /\ logged = <<>>
    /\ outputFile = <<>> /\ audioOutputFile = <<>> /\ videoOutputFile = <<>>
    /\ openHandles = 0 /\ fs = {} /\ removed = <<>>
    /\ combinedPrompt = <<>>

\* main.go 744-793: resolve the input path and collect the video paths.
\* statOk = FALSE is a log.Fatalf of lines 749, 755 or 779.
Discover ==
    /\ fn = "batch" /\ pc = "start"
    /\ \E statOk \in BOOLEAN, n \in 0..MaxVideos :
          /\ numVideos' = (IF statOk THEN n ELSE 0)
          /\ pc' = (IF ~statOk THEN "fatal"
                    ELSE IF n = 0 THEN "return" ELSE "video")
    /\ UNCHANGED combinedPrompt
    /\ UNCHANGED ocrVars
    /\ UNCHANGED <<fn, arg, ret, chunkDuration, diskOk, videoIndex, chunks,
                   ci, audioPc, videoPc, audioTranscript, videoTranscript,
                   errorChannel, chClosed, logged, outputFile,
                   audioOutputFile, videoOutputFile, openHandles, fs, removed>>

\* a variant that skips the video whose output file cannot be created
CreateOutputFiles_Continue ==
    /\ fn = "batch" /\ pc = "video" /\ videoIndex < numVideos
    /\ \E created \in 0..3 :
          /\ openHandles' = openHandles + created
          /\ IF created < 3 THEN NextVideo
             ELSE pc' = "chunking" /\ UNCHANGED videoIndex
    /\ outputFile' = <<>> /\ audioOutputFile' = <<>>
    /\ videoOutputFile' = <<>>
    /\ chunks' = <<>> /\ ci' = 0
    /\ UNCHANGED ocrVars
    /\ UNCHANGED <<fn, arg, ret, combinedPrompt, numVideos, chunkDuration,
                   diskOk, audioPc, videoPc, audioTranscript,
                   videoTranscript, errorChannel, chClosed, logged, fs,
                   removed>>

\* main.go 795-828: os.Create of the three output files; created is the
\* number of files created before the first failure, a failure is a
\* log.Fatalf, which exits the process.
CreateOutputFiles ==
    /\ fn = "batch" /\ pc = "video" /\ videoIndex < numVideos
    /\ \E created \in 0..3 :
          /\ openHandles' = openHandles + created
          /\ pc' = (IF created < 3 THEN "fatal" ELSE "chunking")
    /\ outputFile' = <<>> /\ audioOutputFile' = <<>>
    /\ videoOutputFile' = <<>>
    /\ chunks' = <<>> /\ ci' = 0
    /\ UNCHANGED combinedPrompt
    /\ UNCHANGED ocrVars
    /\ UNCHANGED <<fn, arg, ret, numVideos, chunkDuration, diskOk,
                   videoIndex, audioPc, videoPc, audioTranscript,
                   videoTranscript, errorChannel, chClosed, logged, fs,
                   removed>>

\* a variant that goes on to the chunk loop whatever chunkVideo returns
ChunkVideoCall_IgnoreError ==
    /\ fn = "batch" /\ pc = "chunking"
    /\ \E env \in BatchChunkEnvs :
          LET r == chunkVideo(env, chunkDuration, videoIndex + 1) IN
          /\ fs' = fs \cup r.made
          /\ chunks' = r.chunks
          /\ pc' = "chunks"
          /\ UNCHANGED videoIndex
    /\ UNCHANGED combinedPrompt
    /\ UNCHANGED ocrVars
    /\ UNCHANGED <<fn, arg, ret, numVideos, chunkDuration, diskOk, ci,
                   audioPc, videoPc, audioTranscript, videoTranscript,
                   errorChannel, chClosed, logged, outputFile,
                   audioOutputFile, videoOutputFile, openHandles, removed>>

\* main.go 832-837: chunkVideo, `continue` on error
ChunkVideoCall ==
    /\ fn = "batch" /\ pc = "chunking"
    /\ \E env \in BatchChunkEnvs :
          LET r == chunkVideo(env, chunkDuration, videoIndex + 1) IN
          /\ fs' = fs \cup r.made
          /\ IF r.err
             THEN NextVideo /\ UNCHANGED chunks
             ELSE /\ chunks' = r.chunks
                  /\ pc' = "chunks"
                  /\ UNCHANGED videoIndex
    /\ UNCHANGED combinedPrompt
    /\ UNCHANGED ocrVars
    /\ UNCHANGED <<fn, arg, ret, numVideos, chunkDuration, diskOk, ci,
                   audioPc, videoPc, audioTranscript, videoTranscript,
                   errorChannel, chClosed, logged, outputFile,
                   audioOutputFile, videoOutputFile, openHandles, removed>>

\* main.go 842-843 and 683-732: processChunk is entered for the next chunk.
\* A chunk with Err set is reported and skipped, otherwise the two
\* goroutines are started and processChunk waits.
\* a variant of processChunk that returns without waiting for its two
\* goroutines
ProcessChunkStart_NoWait ==
    /\ fn = "batch" /\ pc = "chunks" /\ ci < Len(chunks)
    /\ audioPc = "idle" /\ videoPc = "idle"
    /\ audioPc' = "transcribe" /\ videoPc' = "transcribe"
    /\ UNCHANGED <<pc, errorChannel, ci>>
    /\ UNCHANGED combinedPrompt
    /\ UNCHANGED ocrVars
    /\ UNCHANGED <<fn, arg, ret, numVideos, chunkDuration, diskOk,
                   videoIndex, chunks, audioTranscript, videoTranscript,
                   chClosed, logged, outputFile, audioOutputFile,
                   videoOutputFile, openHandles, fs, removed>>

\* main.go 842-843 and 693-716: the next iteration of the chunk loop calls
\* processChunk, which starts the two goroutines
ProcessChunkStart ==
    /\ fn = "batch" /\ pc = "chunks" /\ ci < Len(chunks)
    /\ IF CurChunk.Err
       THEN /\ Len(errorChannel) < ErrorChannelCap
            /\ errorChannel' = Append(errorChannel, RunError("chunk", CurChunk))
            /\ ci' = ci + 1
            /\ UNCHANGED <<pc, audioPc, videoPc>>
       ELSE /\ audioPc' = "transcribe" /\ videoPc' = "transcribe"
            /\ pc' = "wait"
            /\ UNCHANGED <<errorChannel, ci>>
    /\ UNCHANGED combinedPrompt
    /\ UNCHANGED ocrVars
    /\ UNCHANGED <<fn, arg, ret, numVideos, chunkDuration, diskOk,
                   videoIndex, chunks, audioTranscript, videoTranscript,
                   chClosed, logged, outputFile, audioOutputFile,
                   videoOutputFile, openHandles, fs, removed>>

\* ---- the audio goroutine, main.go 698-712
audioUnchanged ==
    UNCHANGED <<ocrVars, fn, arg, ret, combinedPrompt, pc, numVideos,
                chunkDuration, diskOk,
                videoIndex, chunks, ci, videoPc, videoTranscript, chClosed,
                logged, outputFile, videoOutputFile, openHandles>>

\* main.go 700: TranscribeAudioWhisperCLI returns a transcript or an error
AudioTranscribe ==
    /\ fn = "batch" /\ audioPc = "transcribe"
    /\ \E ok \in BOOLEAN :
          /\ audioTranscript' = (IF ok THEN <<"speech">> ELSE <<>>)
          /\ audioPc' = (IF ok THEN "write" ELSE "senderr")
    /\ UNCHANGED <<errorChannel, audioOutputFile, fs, removed>>
    /\ audioUnchanged

\* a variant of the audio goroutine that reports the failure and writes no
\* placeholder
AudioSendErr_NoPlaceholder ==
    /\ fn = "batch" /\ audioPc = "senderr"
    /\ Len(errorChannel) < ErrorChannelCap
    /\ errorChannel' = Append(errorChannel, RunError("audio", CurChunk))
    /\ audioPc' = "write"
    /\ UNCHANGED <<audioTranscript, audioOutputFile, fs, removed>>
    /\ audioUnchanged

\* main.go 702-703: the send blocks while the channel is full
AudioSendErr ==
    /\ fn = "batch" /\ audioPc = "senderr"
    /\ Len(errorChannel) < ErrorChannelCap
    /\ errorChannel' = Append(errorChannel, RunError("audio", CurChunk))
    /\ audioTranscript' = AudioPlaceholder(CurChunk)
    /\ audioPc' = "write"
    /\ UNCHANGED <<audioOutputFile, fs, removed>>
    /\ audioUnchanged

\* main.go 706: fmt.Fprintf(audioOutputFile, header and transcript)
AudioWrite ==
    /\ fn = "batch" /\ audioPc = "write"
    /\ IF diskOk
       THEN /\ audioOutputFile' =
                  Append(audioOutputFile, ChunkEntry(CurChunk, audioTranscript))
            /\ audioPc' = "remove"
       ELSE /\ audioPc' = "sendwriteerr"
            /\ UNCHANGED audioOutputFile
    /\ UNCHANGED <<errorChannel, audioTranscript, fs, removed>>
    /\ audioUnchanged

\* main.go 707-709
AudioSendWriteErr ==
    /\ fn = "batch" /\ audioPc = "sendwriteerr"
    /\ Len(errorChannel) < ErrorChannelCap
    /\ errorChannel' = Append(errorChannel, RunError("audiowrite", CurChunk))
    /\ audioPc' = "remove"
    /\ UNCHANGED <<audioTranscript, audioOutputFile, fs, removed>>
    /\ audioUnchanged

\* a variant of the audio goroutine that removes the chunk's video file
AudioRemove_VideoArtifact ==
    /\ fn = "batch" /\ audioPc = "remove"
    /\ Remove(CurChunk.VideoPath)
    /\ audioPc' = "done"
    /\ UNCHANGED <<errorChannel, audioTranscript, audioOutputFile>>
    /\ audioUnchanged

\* main.go 711 and the deferred wg.Done()
AudioRemove ==
    /\ fn = "batch" /\ audioPc = "remove"
    /\ Remove(CurChunk.AudioPath)
    /\ audioPc' = "done"
    /\ UNCHANGED <<errorChannel, audioTranscript, audioOutputFile>>
    /\ audioUnchanged

\* ---- the video goroutine, main.go 716-730
videoUnchanged ==
    UNCHANGED <<ocrVars, fn, arg, ret, combinedPrompt, pc, numVideos,
                chunkDuration, diskOk,
                videoIndex, chunks, ci, audioPc, audioTranscript, chClosed,
                logged, outputFile, audioOutputFile, openHandles>>

\* main.go 718: transcribeVideoLLM returns a transcript or an error
VideoTranscribe ==
    /\ fn = "batch" /\ videoPc = "transcribe"
    /\ \E env \in BatchScreenEnvs :
          LET r == transcribeVideoLLM(env) IN
          /\ videoTranscript' = r.text
          /\ videoPc' = (IF r.err THEN "senderr" ELSE "write")
    /\ UNCHANGED <<errorChannel, videoOutputFile, fs, removed>>
    /\ videoUnchanged

\* main.go 720-721
VideoSendErr ==
    /\ fn = "batch" /\ videoPc = "senderr"
    /\ Len(errorChannel) < ErrorChannelCap
    /\ errorChannel' = Append(errorChannel, RunError("video", CurChunk))
    /\ videoTranscript' = VideoPlaceholder(CurChunk)
    /\ videoPc' = "write"
    /\ UNCHANGED <<videoOutputFile, fs, removed>>
    /\ videoUnchanged

\* a variant of the video goroutine that writes to the audio file
VideoWrite_ToAudioFile ==
    /\ fn = "batch" /\ videoPc = "write"
    /\ IF diskOk
       THEN /\ audioOutputFile' =
                  Append(audioOutputFile, ChunkEntry(CurChunk, videoTranscript))
            /\ videoPc' = "remove"
       ELSE /\ videoPc' = "sendwriteerr"
            /\ UNCHANGED audioOutputFile
    /\ UNCHANGED ocrVars
    /\ UNCHANGED <<fn, arg, ret, combinedPrompt, pc, numVideos,
                   chunkDuration, diskOk, videoIndex, chunks, ci, audioPc,
                   audioTranscript, videoTranscript, chClosed, logged,
                   outputFile, videoOutputFile, openHandles, errorChannel,
                   fs, removed>>

\* a variant that writes the placeholder for an empty transcript
VideoWrite_PlaceholderOnEmpty ==
    /\ fn = "batch" /\ videoPc = "write"
    /\ IF diskOk
       THEN /\ videoOutputFile' =
                  Append(videoOutputFile,
                         ChunkEntry(CurChunk,
                                    IF videoTranscript = <<>>
                                    THEN VideoPlaceholder(CurChunk)
                                    ELSE videoTranscript))
            /\ videoPc' = "remove"
       ELSE /\ videoPc' = "sendwriteerr"
            /\ UNCHANGED videoOutputFile
    /\ UNCHANGED <<errorChannel, videoTranscript, fs, removed>>
    /\ videoUnchanged

\* main.go 724
VideoWrite ==
    /\ fn = "batch" /\ videoPc = "write"
    /\ IF diskOk
       THEN /\ videoOutputFile' =
                  Append(videoOutputFile, ChunkEntry(CurChunk, videoTranscript))
            /\ videoPc' = "remove"
       ELSE /\ videoPc' = "sendwriteerr"
            /\ UNCHANGED videoOutputFile
    /\ UNCHANGED <<errorChannel, videoTranscript, fs, removed>>
    /\ videoUnchanged

\* main.go 725-727
VideoSendWriteErr ==
    /\ fn = "batch" /\ videoPc = "sendwriteerr"
    /\ Len(errorChannel) < ErrorChannelCap
    /\ errorChannel' = Append(errorChannel, RunError("videowrite", CurChunk))
    /\ videoPc' = "remove"
    /\ UNCHANGED <<videoTranscript, videoOutputFile, fs, removed>>
    /\ videoUnchanged

\* main.go 729 and the deferred wg.Done()
VideoRemove ==
    /\ fn = "batch" /\ videoPc = "remove"
    /\ Remove(CurChunk.VideoPath)
    /\ videoPc' = "done"
    /\ UNCHANGED <<errorChannel, videoTranscript, videoOutputFile>>
    /\ videoUnchanged

\* a variant of the join that waits for the video goroutine only
Join_VideoOnly ==
    /\ fn = "batch" /\ pc = "wait"
    /\ videoPc = "done"
    /\ audioPc' = "idle" /\ videoPc' = "idle"
    /\ audioTranscript' = <<>> /\ videoTranscript' = <<>>
    /\ ci' = ci + 1
    /\ pc' = "chunks"
    /\ UNCHANGED combinedPrompt
    /\ UNCHANGED ocrVars
    /\ UNCHANGED <<fn, arg, ret, numVideos, chunkDuration, diskOk,
                   videoIndex, chunks, errorChannel, chClosed, logged,
                   outputFile, audioOutputFile, videoOutputFile, openHandles,
                   fs, removed>>

\* a variant of the join that waits for the audio goroutine only
Join_AudioOnly ==
    /\ fn = "batch" /\ pc = "wait"
    /\ audioPc = "done"
    /\ audioPc' = "idle" /\ videoPc' = "idle"
    /\ audioTranscript' = <<>> /\ videoTranscript' = <<>>
    /\ ci' = ci + 1
    /\ pc' = "chunks"
    /\ UNCHANGED combinedPrompt
    /\ UNCHANGED ocrVars
    /\ UNCHANGED <<fn, arg, ret, numVideos, chunkDuration, diskOk,
                   videoIndex, chunks, errorChannel, chClosed, logged,
                   outputFile, audioOutputFile, videoOutputFile, openHandles,
                   fs, removed>>

\* main.go 732: wg.Wait() returns when both goroutines are done;
\* processChunk returns and the chunk loop goes on
Join ==
    /\ fn = "batch" /\ pc = "wait"
    /\ audioPc = "done" /\ videoPc = "done"
    /\ audioPc' = "idle" /\ videoPc' = "idle"
    /\ audioTranscript' = <<>> /\ videoTranscript' = <<>>
    /\ ci' = ci + 1
    /\ pc' = "chunks"
    /\ UNCHANGED combinedPrompt
    /\ UNCHANGED ocrVars
    /\ UNCHANGED <<fn, arg, ret, numVideos, chunkDuration, diskOk,
                   videoIndex, chunks, errorChannel, chClosed, logged,
                   outputFile, audioOutputFile, videoOutputFile, openHandles,
                   fs, removed>>

\* main.go 849-890: read both transcript files back, `continue` on error,
\* and build the combined prompt from what was read
ReadBack ==
    /\ fn = "batch" /\ pc = "chunks" /\ ci = Len(chunks)
    /\ \E readOk \in BOOLEAN :
          IF readOk
          THEN /\ combinedPrompt' =
                     combinedPromptText(inputFromUser, audioOutputFile,
                                        videoOutputFile)
               /\ pc' = "summarize" /\ UNCHANGED videoIndex
          ELSE NextVideo /\ UNCHANGED combinedPrompt
    /\ UNCHANGED ocrVars
    /\ UNCHANGED <<fn, arg, ret, numVideos, chunkDuration, diskOk, chunks,
                   ci, audioPc, videoPc, audioTranscript, videoTranscript,
                   errorChannel, chClosed, logged, outputFile,
                   audioOutputFile, videoOutputFile, openHandles, fs, removed>>

\* main.go 886-892: the summarization call with the summary file as sink
Summarize ==
    /\ fn = "batch" /\ pc = "summarize"
    /\ \E env \in BatchPromptEnvs :
          LET r == sentLlmPrompt(env, TRUE) IN
          outputFile' =
              IF diskOk
              THEN outputFile \o [i \in DOMAIN r.sink |->
                                    SummaryLine(videoIndex + 1, r.sink[i])]
              ELSE outputFile
    /\ pc' = "markers"
    /\ UNCHANGED combinedPrompt
    /\ UNCHANGED ocrVars
    /\ UNCHANGED <<fn, arg, ret, numVideos, chunkDuration, diskOk,
                   videoIndex, chunks, ci, audioPc, videoPc, audioTranscript,
                   videoTranscript, errorChannel, chClosed, logged,
                   audioOutputFile, videoOutputFile, openHandles, fs, removed>>

\* a variant that writes the completion marker to the summary file only
WriteMarkers_SummaryFileOnly ==
    /\ fn = "batch" /\ pc = "markers"
    /\ IF diskOk
       THEN /\ outputFile' = Append(outputFile, MarkerEntry(videoIndex + 1))
            /\ UNCHANGED <<audioOutputFile, videoOutputFile>>
       ELSE UNCHANGED <<outputFile, audioOutputFile, videoOutputFile>>
    /\ NextVideo
    /\ combinedPrompt' = <<>>
    /\ UNCHANGED ocrVars
    /\ UNCHANGED <<fn, arg, ret, numVideos, chunkDuration, diskOk, chunks,
                   ci, audioPc, videoPc, audioTranscript, videoTranscript,
                   errorChannel, chClosed, logged, openHandles, fs, removed>>

\* a variant that closes the three files of the video at the end of its
\* iteration
WriteMarkers_CloseFiles ==
    /\ fn = "batch" /\ pc = "markers"
    /\ IF diskOk
       THEN /\ outputFile' = Append(outputFile, MarkerEntry(videoIndex + 1))
            /\ audioOutputFile' =
                  Append(audioOutputFile, MarkerEntry(videoIndex + 1))
            /\ videoOutputFile' =
                  Append(videoOutputFile, MarkerEntry(videoIndex + 1))
       ELSE UNCHANGED <<outputFile, audioOutputFile, videoOutputFile>>
    /\ NextVideo
    /\ combinedPrompt' = <<>>
    /\ openHandles' = openHandles - 3
    /\ UNCHANGED ocrVars
    /\ UNCHANGED <<fn, arg, ret, numVideos, chunkDuration, diskOk, chunks,
                   ci, audioPc, videoPc, audioTranscript, videoTranscript,
                   errorChannel, chClosed, logged, fs, removed>>

\* main.go 894-896: the completion markers, then the next video; the
\* locals of the loop body end with the iteration
WriteMarkers ==
    /\ fn = "batch" /\ pc = "markers"
    /\ IF diskOk
       THEN /\ outputFile' = Append(outputFile, MarkerEntry(videoIndex + 1))
            /\ audioOutputFile' =
                  Append(audioOutputFile, MarkerEntry(videoIndex + 1))
            /\ videoOutputFile' =
                  Append(videoOutputFile, MarkerEntry(videoIndex + 1))
       ELSE UNCHANGED <<outputFile, audioOutputFile, videoOutputFile>>
    /\ NextVideo
    /\ combinedPrompt' = <<>>
    /\ UNCHANGED ocrVars
    /\ UNCHANGED <<fn, arg, ret, numVideos, chunkDuration, diskOk, chunks,
                   ci, audioPc, videoPc, audioTranscript, videoTranscript,
                   errorChannel, chClosed, logged, openHandles, fs, removed>>

\* a variant that closes the channel after any video
CloseChannel_BeforeLastVideo ==
    /\ fn = "batch" /\ pc = "video"
    /\ chClosed' = TRUE
    /\ pc' = "drain"
    /\ UNCHANGED combinedPrompt
    /\ UNCHANGED ocrVars
    /\ UNCHANGED <<fn, arg, ret, numVideos, chunkDuration, diskOk,
                   videoIndex, chunks, ci, audioPc, videoPc, audioTranscript,
                   videoTranscript, errorChannel, logged, outputFile,
                   audioOutputFile, videoOutputFile, openHandles, fs, removed>>

\* main.go 898: close(errorChannel) after the last video
CloseChannel ==
    /\ fn = "batch" /\ pc = "video" /\ videoIndex = numVideos
    /\ chClosed' = TRUE
    /\ pc' = "drain"
    /\ UNCHANGED combinedPrompt
    /\ UNCHANGED ocrVars
    /\ UNCHANGED <<fn, arg, ret, numVideos, chunkDuration, diskOk,
                   videoIndex, chunks, ci, audioPc, videoPc, audioTranscript,
                   videoTranscript, errorChannel, logged, outputFile,
                   audioOutputFile, videoOutputFile, openHandles, fs, removed>>

\* main.go 899-901: one iteration of `for err := range errorChannel`
Drain ==
    /\ fn = "batch" /\ pc = "drain" /\ errorChannel # <<>>
    /\ logged' = Append(logged, Head(errorChannel))
    /\ errorChannel' = Tail(errorChannel)
    /\ UNCHANGED combinedPrompt
    /\ UNCHANGED ocrVars
    /\ UNCHANGED <<fn, arg, ret, pc, numVideos, chunkDuration, diskOk,
                   videoIndex, chunks, ci, audioPc, videoPc, audioTranscript,
                   videoTranscript, chClosed, outputFile, audioOutputFile,
                   videoOutputFile, openHandles, fs, removed>>

\* main.go 903-905: the range loop ends on the closed, empty channel; the
\* deferred Close calls of the output files run at the return
Finish ==
    /\ fn = "batch" /\ pc = "drain" /\ errorChannel = <<>>
    /\ pc' = "done"
    /\ openHandles' = 0
    /\ UNCHANGED combinedPrompt
    /\ UNCHANGED ocrVars
    /\ UNCHANGED <<fn, arg, ret, numVideos, chunkDuration, diskOk,
                   videoIndex, chunks, ci, audioPc, videoPc, audioTranscript,
                   videoTranscript, errorChannel, chClosed, logged,
                   outputFile, audioOutputFile, videoOutputFile, fs, removed>>

BatchNext ==
    \/ Discover \/ CreateOutputFiles \/ ChunkVideoCall \/ ProcessChunkStart
    \/ AudioTranscribe \/ AudioSendErr \/ AudioWrite \/ AudioSendWriteErr
    \/ AudioRemove
    \/ VideoTranscribe \/ VideoSendErr \/ VideoWrite \/ VideoSendWriteErr
    \/ VideoRemove
    \/ Join \/ ReadBack \/ Summarize \/ WriteMarkers
    \/ CloseChannel \/ Drain \/ Finish

Spec == BatchInit /\ [][BatchNext]_vars

-----------------------------------------------------------------------------
(* Claims about chunkVideo (SpecSeg) *)

CutsAttempted(r) == Cardinality({i \in DOMAIN r.trace : r.trace[i].op = "cut"})

\* C2: for every probed duration D >= 0 (also a non-integer one) and every
\* chunk length L > 0, chunkVideo attempts to create exactly ceil(D/L)
\* chunks when no cut fails.  Stated as the claim states it; the code
\* drops the fractional tail (D = 0.5, L = 1 gives 0 chunks).
C2_AttemptsCeilChunks ==
    (fn = "chunkVideo" /\ Returned /\ arg.env.stage = "ok"
        /\ arg.env.failAt = -1)
    => CutsAttempted(ret[1]) = CeilChunks(arg.env.dur, arg.L)

\* the cut commands of a trace, in order
Cuts(trace) == SelectSeq(trace, LAMBDA e : e.op = "cut")

\* C18: chunkVideo stops at the first failing cut command: the cuts
\* attempted are those of the indices 0..i up to the failing one and no
\* later one, an error with no chunk records is returned, and the scratch
\* directory is left in place (no RemoveAll is issued); on a probe failure
\* (tool error or unparseable duration) the scratch directory has been
\* removed before the error is returned and no cut is attempted.
C18_StopsAtFirstFailingCut ==
    (fn = "chunkVideo" /\ Returned) =>
        LET r == ret[1]
            env == arg.env
            n == NumChunks(env.dur, arg.L)
        IN /\ (env.stage = "ok" /\ env.failAt >= 0 /\ env.failAt < n) =>
                /\ r.err /\ r.chunks = <<>>
                /\ Cuts(r.trace) =
                      [i \in 1..(env.failAt + 1) |->
                          Ev("cut", (i - 1) * arg.L, arg.L)]
                /\ r.trace[Len(r.trace)].op = "cut"
                /\ ChunkTempDir(arg.vi) \in r.made
                /\ \A i \in DOMAIN r.trace : r.trace[i].op # "removeall"
           /\ env.stage \in {"probefail", "parsefail"} =>
                /\ r.err /\ r.chunks = <<>>
                /\ Cuts(r.trace) = <<>>
                /\ r.made = {}
                /\ r.trace[Len(r.trace)].op = "removeall"
                /\ \E i \in DOMAIN r.trace : r.trace[i].op = "mkdirtemp"

\* the second cut of a two-chunk video failed: two cuts were attempted and
\* the scratch directory holds the files of the first chunk
C18_Witness ==
    /\ fn = "chunkVideo" /\ Returned
    /\ arg.env.stage = "ok" /\ arg.env.failAt = 1 /\ arg.L = 1
    /\ arg.env.dur = [whole |-> 2, frac |-> FALSE]
    /\ ret[1].err /\ Len(Cuts(ret[1].trace)) = 2
    /\ ret[1].made = {ChunkTempDir(arg.vi), ChunkVideoPath(arg.vi, 0),
                      ChunkAudioPath(arg.vi, 0)}

\* C27: on success chunkVideo returns chunk records whose ChunkNum values
\* are 0, 1, ..., numChunks-1 in ascending order, chunk i is requested with
\* start offset i*L and length L (also the last one, whose window may
\* reach past the end of the input), and every record carries the 1-based
\* video index passed in.
C27_ChunkWindows ==
    (fn = "chunkVideo" /\ Returned /\ ~ret[1].err) =>
        LET r == ret[1]
            n == NumChunks(arg.env.dur, arg.L)
        IN /\ Len(r.chunks) = n
           /\ \A i \in 1..n :
                 /\ r.chunks[i].ChunkNum = i - 1
                 /\ r.chunks[i].VideoIndex = arg.vi
                 /\ r.chunks[i].VideoPath = ChunkVideoPath(arg.vi, i - 1)
                 /\ r.chunks[i].AudioPath = ChunkAudioPath(arg.vi, i - 1)
           /\ Cuts(r.trace) = [i \in 1..n |-> Ev("cut", (i - 1) * arg.L, arg.L)]
           /\ arg.vi >= 1

\* a 3-second input cut with a 2-second chunk length as the second video
\* of a run: two chunks, requested at 0 and 2, the second window reaching
\* past the end
C27_Witness ==
    /\ fn = "chunkVideo" /\ Returned /\ ~ret[1].err
    /\ arg.env.dur.whole = 3 /\ arg.L = 2 /\ arg.vi = 2
    /\ Cuts(ret[1].trace) = <<Ev("cut", 0, 2), Ev("cut", 2, 2)>>
    /\ Len(ret[1].chunks) = 2
    /\ ret[1].chunks[2].ChunkNum = 1 /\ ret[1].chunks[2].VideoIndex = 2

-----------------------------------------------------------------------------
(* Claims about sentLlmPrompt (SpecPrompt) *)

\* the calls of a trace without the writes to the sink
RemoteCalls(trace) == SelectSeq(trace, LAMBDA e : e # "write")

\* generate, sleep, generate, ..., generate with k sleeps
Alternating(k) ==
    [i \in 1..(2 * k + 1) |-> IF i % 2 = 1 THEN "generate" ELSE "sleep"]

\* the text parts of a response, then their concatenation
AllParts(resp) ==
    Concat([i \in DOMAIN resp |->
              IF resp[i].hasContent THEN resp[i].parts ELSE <<>>])
TextOfResponse(resp) ==
    LET tp == SelectSeq(AllParts(resp), LAMBDA q : q.isText)
    IN Concat([i \in DOMAIN tp |-> tp[i].text])

\* C3: on a remote call that fails on every attempt sentLlmPrompt makes
\* exactly maxRetries+1 attempts and returns the empty string.
C3_AlwaysFailing ==
    (fn = "sentLlmPrompt" /\ Returned /\ arg.env.failsFirst > maxRetries)
    => /\ Occurrences(ret[1].trace, "generate") = maxRetries + 1
       /\ ret[1].result = <<>>

C3_Witness ==
    /\ fn = "sentLlmPrompt" /\ Returned /\ arg.env.failsFirst > maxRetries
    /\ Occurrences(ret[1].trace, "generate") = 6

\* C4: on a remote call that fails the first k times (0 <= k <= maxRetries)
\* and then succeeds, sentLlmPrompt makes k+1 attempts with one wait between
\* consecutive attempts (k waits), none after the success, and returns the
\* concatenation of the text parts of the successful response.
C4_FailsThenSucceeds ==
    (fn = "sentLlmPrompt" /\ Returned /\ arg.env.failsFirst <= maxRetries)
    => /\ RemoteCalls(ret[1].trace) = Alternating(arg.env.failsFirst)
       /\ ret[1].result = TextOfResponse(arg.env.resp)

C4_Witness ==
    /\ fn = "sentLlmPrompt" /\ Returned /\ arg.env.failsFirst = 2
    /\ Occurrences(ret[1].trace, "sleep") = 2
    /\ ret[1].result = <<"x", "y">>

\* C32: when every attempt of sentLlmPrompt fails, the fixed delay is waited
\* exactly maxRetries times: once after each failed attempt except the last,
\* after which the function returns at once without waiting.
C32_WaitsWhenAllFail ==
    (fn = "sentLlmPrompt" /\ Returned /\ arg.env.failsFirst > maxRetries)
    => LET t == ret[1].trace IN
       /\ Occurrences(t, "sleep") = maxRetries
       /\ t # <<>> /\ t[Len(t)] = "generate"
       /\ \A i \in 1..(Len(t) - 1) :
             /\ t[i] = "generate" => t[i + 1] = "sleep"
             /\ t[i] = "sleep" => t[i + 1] = "generate"

C32_Witness ==
    /\ fn = "sentLlmPrompt" /\ Returned /\ arg.env.failsFirst = maxRetries + 1
    /\ ret[1].trace = <<"generate", "sleep", "generate", "sleep", "generate",
                        "sleep", "generate", "sleep", "generate", "sleep",
                        "generate">>

\* the text parts of a response in response order, one line each
TextLines(resp) ==
    LET tp == SelectSeq(AllParts(resp), LAMBDA q : q.isText)
    IN [i \in DOMAIN tp |-> tp[i].text \o Newline]

\* the first position of a trace that holds a write (past the end if none)
FirstWrite(trace) ==
    IF Occurrences(trace, "write") = 0 THEN Len(trace) + 1
    ELSE CHOOSE i \in DOMAIN trace :
            /\ trace[i] = "write"
            /\ \A j \in 1..(i - 1) : trace[j] # "write"

\* C31: sentLlmPrompt writes to the sink only during the one successful
\* attempt: failed attempts write nothing (no write precedes a request or a
\* wait, and a call whose attempts all fail writes nothing), the sink
\* receives exactly the text parts of the successful response in response
\* order (one line each), and when no sink is given no file is written and
\* the text is only returned.
C31_SinkOnlyOnSuccess ==
    (fn = "sentLlmPrompt" /\ Returned)
    => LET r == ret[1]
           ok == arg.env.failsFirst <= maxRetries
       IN /\ \A i \in DOMAIN r.trace :
                 i > FirstWrite(r.trace) => r.trace[i] = "write"
          /\ Occurrences(r.trace, "write") = Len(r.sink)
          /\ r.sink = IF ok /\ arg.hasSink THEN TextLines(arg.env.resp)
                      ELSE <<>>
          /\ (ok /\ ~arg.hasSink) => r.result = TextOfResponse(arg.env.resp)

\* two failed attempts, then a response of two candidates with a text part
\* each and a blob between them, written to the sink as two lines
C31_Witness ==
    /\ fn = "sentLlmPrompt" /\ Returned /\ arg.hasSink
    /\ arg.env.failsFirst = 2
    /\ arg.env.resp = <<[hasContent |-> TRUE,
                         parts |-> <<TextPart(<<"y">>), BlobPart>>],
                        [hasContent |-> TRUE,
                         parts |-> <<TextPart(<<"x">>)>>]>>
    /\ ret[1].sink = <<<<"y", "\n">>, <<"x", "\n">>>>
    /\ ret[1].trace = <<"generate", "sleep", "generate", "sleep",
                        "generate", "write", "write">>

-----------------------------------------------------------------------------
(* Claims about transcribeVideoLLM (SpecScreen) *)

\* the OCR fallback was entered: extractFrames was called
FallbackRan(r) == Occurrences(r.trace, "mkdirtemp") > 0

\* what the retry-governed prompt returns in this environment
PromptResult(env) == sentLlmPrompt(env.prompt, FALSE).result

\* C5: the OCR fallback is entered only if the upload failed or the prompt
\* returned the empty string; when the prompt returns non-empty text the
\* fallback is not invoked and that text is returned with a nil error.
C5_FallbackOnlyAfterRemote ==
    (fn = "transcribeVideoLLM" /\ Returned)
    => /\ FallbackRan(ret[1]) => (~arg.upload \/ PromptResult(arg) = <<>>)
       /\ (arg.upload /\ PromptResult(arg) # <<>>)
            => /\ ~FallbackRan(ret[1])
               /\ Occurrences(ret[1].trace, "tesseract") = 0
               /\ ret[1].text = PromptResult(arg)
               /\ ~ret[1].err

C5_Witness ==
    /\ fn = "transcribeVideoLLM" /\ Returned
    /\ arg.upload /\ arg.prompt.failsFirst = 3
    /\ ret[1].text = <<"x">> /\ ~FallbackRan(ret[1])

\* C6: whenever the upload fails or the prompt result is empty, frame
\* extraction is attempted exactly once, and when the upload fails no
\* prompt request is issued.
C6_FallbackExactlyOnce ==
    (fn = "transcribeVideoLLM" /\ Returned)
    => /\ (~arg.upload \/ PromptResult(arg) = <<>>)
            => /\ Occurrences(ret[1].trace, "mkdirtemp") = 1
               /\ Occurrences(ret[1].trace, "ffmpeg") <= 1
               /\ Occurrences(ret[1].trace, "tesseract") <= 1
       /\ ~arg.upload => Occurrences(ret[1].trace, "generate") = 0

C6_Witness ==
    /\ fn = "transcribeVideoLLM" /\ Returned
    /\ ~arg.upload /\ ~arg.extract.ffmpeg /\ arg.extract.mkdir
    /\ Occurrences(ret[1].trace, "ffmpeg") = 1

\* C7: the number of delete requests for the uploaded artifact equals the
\* number of successful uploads: one, issued last, after a successful
\* upload on every path, none when the upload failed.
C7_DeleteOncePerUpload ==
    (fn = "transcribeVideoLLM" /\ Returned)
    => /\ Occurrences(ret[1].trace, "upload") = 1
       /\ Occurrences(ret[1].trace, "delete") = (IF arg.upload THEN 1 ELSE 0)
       /\ arg.upload => ret[1].trace[Len(ret[1].trace)] = "delete"

C7_Witness ==
    /\ fn = "transcribeVideoLLM" /\ Returned
    /\ arg.upload /\ PromptResult(arg) = <<>> /\ ret[1].err
    /\ Occurrences(ret[1].trace, "delete") = 1

\* C8: whenever the OCR fallback ran, the scratch directory made by
\* extractFrames no longer exists when transcribeVideoLLM returns.  Stated
\* as the claim states it; the code keeps the directory when ffmpeg
\* succeeds and no frame file is found.
C8_FramesDirRemoved ==
    (fn = "transcribeVideoLLM" /\ Returned /\ FallbackRan(ret[1]))
    => ~ret[1].framesDir

\* the calls of a trace other than those of the retry loop
LocalCalls(trace) == SelectSeq(trace, LAMBDA c : c \notin {"generate", "sleep"})

\* the same environment with a remote service that fails on every attempt
Exhausted(env) == [env EXCEPT !.prompt.failsFirst = maxRetries + 1]

\* C30: when a remote call succeeds but its response contains no text
\* parts, sentLlmPrompt returns the empty string after that attempt without
\* retrying (no further request, no wait after it); in transcribeVideoLLM
\* this result is indistinguishable from retry exhaustion and leads to the
\* OCR fallback: the fallback runs, and what the call returns and does
\* apart from the remote requests is what it returns and does when every
\* attempt fails.
C30_EmptyResponseIsFinal ==
    (fn = "transcribeVideoLLM" /\ Returned /\ arg.upload
        /\ arg.prompt.failsFirst <= maxRetries
        /\ ResponseTexts(arg.prompt.resp) = <<>>)
    => LET r == ret[1]
           x == transcribeVideoLLM(Exhausted(arg))
       IN /\ PromptResult(arg) = <<>>
          /\ Occurrences(r.trace, "generate") = arg.prompt.failsFirst + 1
          /\ Occurrences(r.trace, "sleep") = arg.prompt.failsFirst
          /\ FallbackRan(r)
          /\ r.text = x.text /\ r.err = x.err /\ r.framesDir = x.framesDir
          /\ LocalCalls(r.trace) = LocalCalls(x.trace)
          /\ Occurrences(x.trace, "generate") = maxRetries + 1

\* the first request is answered with a candidate that holds a blob only:
\* one request, no wait, and the text comes from the OCR of the one frame
C30_Witness ==
    /\ fn = "transcribeVideoLLM" /\ Returned /\ arg.upload
    /\ arg.prompt.failsFirst = 0
    /\ arg.prompt.resp = <<[hasContent |-> TRUE, parts |-> <<BlobPart>>]>>
    /\ Occurrences(ret[1].trace, "generate") = 1
    /\ Occurrences(ret[1].trace, "sleep") = 0
    /\ ret[1].text = <<"frame", "1">> \o Newline

\* the calls of the prompt attempts, and those of extraction and OCR
PromptCalls == {"generate", "sleep"}
FallbackCalls == {"mkdirtemp", "ffmpeg", "walkdir", "tesseract", "removeall"}

\* in trace t every call of set A comes before every call of set B
Before(t, A, B) ==
    \A i, j \in DOMAIN t : (t[i] \in A /\ t[j] \in B) => i < j

\* C33: in transcribeVideoLLM, after a successful upload the order of events
\* is: activation wait, prompt attempts, then (if the prompt result is
\* empty) frame extraction and OCR, and only then the delete request for the
\* uploaded artifact; the remote artifact is still held for the whole of the
\* OCR fallback.
C33_OrderAfterUpload ==
    (fn = "transcribeVideoLLM" /\ Returned /\ arg.upload)
    => LET t == ret[1].trace IN
       /\ t[1] = "upload" /\ t[2] = "activate"
       /\ Occurrences(t, "activate") = 1
       /\ Occurrences(t, "generate") >= 1
       /\ Before(t, {"upload", "activate"}, PromptCalls)
       /\ Before(t, PromptCalls, FallbackCalls)
       /\ Before(t, PromptCalls \cup FallbackCalls, {"delete"})
       /\ Occurrences(t, "delete") = 1
       /\ (PromptResult(arg) = <<>>) <=> (\E i \in DOMAIN t :
                                            t[i] \in FallbackCalls)

\* one attempt fails, the next is answered without text, two frames are
\* extracted and read, the directory is removed, and the delete request
\* comes last
C33_Witness ==
    /\ fn = "transcribeVideoLLM" /\ Returned /\ arg.upload
    /\ arg.prompt.failsFirst = 1 /\ arg.prompt.resp = <<>>
    /\ arg.extract.nframes = 2
    /\ ret[1].trace = <<"upload", "activate", "generate", "sleep",
                        "generate", "mkdirtemp", "ffmpeg", "walkdir",
                        "tesseract", "removeall", "delete">>

-----------------------------------------------------------------------------
(* Claims about the batch run (Spec) *)

\* the run has ended: VideoSummary returned or the process exited
RunEnded == pc \in {"done", "return", "fatal"}

\* the exit status of the process: log.Fatalf exits with status 1
\* (main.go 749, 755, 779, 810, 817, 824)
ExitStatus == IF pc = "fatal" THEN 1 ELSE 0

\* C1: given that every external call returns, a batch run always
\* terminates and then has logged every collected error, also when more
\* than ErrorChannelCap errors are pushed before the drain.  Stated as the
\* claim states it, in the form a finite run refutes: a run that has not
\* ended can take a step, and a finished run has an empty channel.  The
\* code blocks for ever on the 11th send, which nothing receives.
C1_RunTerminates ==
    fn = "batch" =>
        /\ RunEnded \/ ENABLED BatchNext
        /\ pc = "done" => errorChannel = <<>>

\* C9: every chunk artifact file the Segmenter created for a video is
\* deleted exactly once by the time processing of that video ends, also
\* when segmentation fails at a chunk index i > 0.  Stated as the claim
\* states it; after a failed cut the code never deletes the files of the
\* chunks already cut.
C9_ChunkArtifactsDeleted ==
    fn = "batch" =>
        /\ \A f \in DOMAIN removed : removed[f] = 1
        /\ (pc \in {"video", "drain", "done"}) =>
              \A f \in fs : f.kind \in {"mp4", "wav"} => f.video > videoIndex

\* the chunk entries of a transcript file
ChunkEntries(file) == SelectSeq(file, LAMBDA e : e.kind = "chunk")

\* the entries are those of chunks 0, 1, ..., n-1 of the current video
Ascending(entries) ==
    \A i \in DOMAIN entries :
        entries[i].Chunk = i - 1 /\ entries[i].VideoIndex = videoIndex + 1

\* C10: for a single video the chunk entries appended to the audio
\* transcript file, and those appended to the screen transcript file, are
\* each in ascending chunk index 0, 1, ..., N-1 under every interleaving of
\* the two tasks of a chunk: at any time each file holds the entries of
\* chunks 0..k-1 in this order, k being the current chunk or the next, and
\* all N entries once the chunk loop has ended (when the appends succeed).
C10_AppendOrder ==
    (fn = "batch" /\ pc \in {"chunks", "wait", "summarize", "markers"}) =>
        LET a == ChunkEntries(audioOutputFile)
            v == ChunkEntries(videoOutputFile)
        IN /\ Ascending(a) /\ Ascending(v)
           /\ Len(a) <= Len(chunks) /\ Len(v) <= Len(chunks)
           /\ diskOk =>
                /\ Len(a) = (IF audioPc \in {"remove", "done"} THEN ci + 1 ELSE ci)
                /\ Len(v) = (IF videoPc \in {"remove", "done"} THEN ci + 1 ELSE ci)
           /\ (diskOk /\ pc \in {"summarize", "markers"}) =>
                Len(a) = Len(chunks) /\ Len(v) = Len(chunks)

\* the chunk loop of a two-chunk video has ended: both files hold two
\* chunk entries, the audio entry of the second chunk being the placeholder
C10_Witness ==
    /\ fn = "batch" /\ pc = "summarize" /\ Len(chunks) = 2
    /\ Len(ChunkEntries(audioOutputFile)) = 2
    /\ Len(ChunkEntries(videoOutputFile)) = 2
    /\ audioOutputFile[2].Text = AudioPlaceholder(chunks[2])

\* the file holds the entry of the chunk
Appended(file, chunk) ==
    \E i \in DOMAIN file :
        /\ file[i].kind = "chunk"
        /\ file[i].VideoIndex = chunk.VideoIndex
        /\ file[i].Chunk = chunk.ChunkNum

\* the error was sent to the channel (and is in it, or was logged from it)
Pushed(e) == Occurrences(errorChannel, e) + Occurrences(logged, e)

\* the task has made its append for the chunk: the entry is in the file,
\* or the failed write was reported
AppendMade(file, src, chunk) ==
    IF diskOk THEN Appended(file, chunk)
    ELSE Pushed(RunError(src, chunk)) = 1

\* a task of processChunk is running
TaskAlive == audioPc # "idle" \/ videoPc # "idle"

\* C11 as the claim states it: processChunk returns only after both of its
\* tasks have completed, and by then each task has appended its entry for
\* that chunk to its transcript file; no task of chunk c+1 starts before
\* both tasks of chunk c have finished.  A task whose Fprintf fails
\* (main.go 706, 724) reports the write error and completes with no entry
\* of the chunk in its file.
C11_JoinAfterAppended ==
    fn = "batch" =>
        /\ ci <= Len(chunks)
        /\ \A c \in 1..ci :
              /\ Appended(audioOutputFile, chunks[c])
              /\ Appended(videoOutputFile, chunks[c])
        /\ TaskAlive => (pc = "wait" /\ ci < Len(chunks))
        /\ pc = "wait" => (audioPc # "idle" /\ videoPc # "idle")

\* C11, amended: processChunk returns only after both of its tasks have
\* completed, and by then each task has appended its entry for that chunk
\* to its transcript file or reported the failed append, and has removed
\* its artifact (its last step); no task of chunk c+1 starts before both
\* tasks of chunk c have finished: tasks are alive only while the main
\* goroutine waits in processChunk, and only for the chunk after those
\* processChunk has returned for.
C11_JoinBeforeReturn ==
    fn = "batch" =>
        /\ ci <= Len(chunks)
        /\ \A c \in 1..ci :
              /\ chunks[c].AudioPath \in DOMAIN removed
              /\ chunks[c].VideoPath \in DOMAIN removed
              /\ AppendMade(audioOutputFile, "audiowrite", chunks[c])
              /\ AppendMade(videoOutputFile, "videowrite", chunks[c])
        /\ TaskAlive => (pc = "wait" /\ ci < Len(chunks))
        /\ pc = "wait" => (audioPc # "idle" /\ videoPc # "idle")
        /\ \A c \in (ci + 2)..Len(chunks) :
              /\ chunks[c].AudioPath \in fs /\ chunks[c].VideoPath \in fs
              /\ ~Appended(audioOutputFile, chunks[c])
              /\ ~Appended(videoOutputFile, chunks[c])

\* the two tasks of the second chunk have just started; both entries of the
\* first chunk are in the files and its artifacts are gone
C11_Witness ==
    /\ fn = "batch" /\ pc = "wait" /\ ci = 1 /\ diskOk
    /\ audioPc = "transcribe" /\ videoPc = "transcribe"
    /\ Appended(audioOutputFile, chunks[1])
    /\ Appended(videoOutputFile, chunks[1])
    /\ chunks[1].VideoPath \notin fs /\ chunks[2].VideoPath \in fs

\* what a step that changes a transcript file is: the append of the entry
\* of the current chunk by the task at its write position while the main
\* goroutine waits in processChunk, or the append of the completion marker
\* when no task is alive and every chunk is done, or os.Create of the file
\* of the next video
TranscriptWrite(file, fileNext, taskPc, taskPcNext, transcript) ==
    \/ /\ pc = "wait" /\ taskPc = "write" /\ taskPcNext = "remove"
       /\ fileNext = Append(file, ChunkEntry(CurChunk, transcript))
    \/ /\ pc = "markers" /\ ~TaskAlive /\ ci = Len(chunks)
       /\ fileNext = Append(file, MarkerEntry(videoIndex + 1))
    \/ /\ pc = "video" /\ ~TaskAlive
       /\ fileNext = <<>>

\* C12: at no point are two tasks appending to the same transcript file:
\* the audio transcript file is written only by the audio task of the
\* current chunk (a step that leaves the screen task and the screen file
\* alone), the screen transcript file only by the screen task of the
\* current chunk, and the completion markers only after all chunk tasks
\* have joined.
C12_SingleWriter ==
    [][/\ audioOutputFile' # audioOutputFile =>
            /\ TranscriptWrite(audioOutputFile, audioOutputFile', audioPc,
                               audioPc', audioTranscript)
            /\ pc = "wait" => UNCHANGED <<videoPc, videoOutputFile>>
       /\ videoOutputFile' # videoOutputFile =>
            /\ TranscriptWrite(videoOutputFile, videoOutputFile', videoPc,
                               videoPc', videoTranscript)
            /\ pc = "wait" => UNCHANGED <<audioPc, audioOutputFile>>
      ]_vars

\* the audio task has appended the entry of the current chunk while the
\* screen task is about to append its own
C12_Witness ==
    /\ fn = "batch" /\ pc = "wait" /\ diskOk
    /\ audioPc = "remove" /\ videoPc = "write"
    /\ Appended(audioOutputFile, CurChunk)
    /\ ~Appended(videoOutputFile, CurChunk)

\* the chunk record of an entry of a transcript file
ChunkOf(e) == [VideoIndex |-> e.VideoIndex, ChunkNum |-> e.Chunk]

\* the entry of a chunk whose task failed holds the placeholder and exactly
\* one error of that task was pushed; otherwise it holds what the engine
\* returned and no error of that task was pushed
EntryMatchesOutcome(e, src, placeholder, realTexts) ==
    LET pushed == Pushed(RunError(src, ChunkOf(e))) IN
    IF pushed = 0
    THEN e.Text \in realTexts
    ELSE pushed = 1 /\ e.Text = placeholder

\* the task of the chunk has finished its write step: the chunk is one
\* processChunk has returned for, or the current one with the task at its
\* os.Remove or done
PastWrite(c, taskPc) ==
    \/ c <= ci
    \/ c = ci + 1 /\ pc = "wait" /\ taskPc \in {"remove", "done"}

\* the errors the two sends of a task have pushed for the chunk
TaskErrors(src, chunk) ==
    Pushed(RunError(src, chunk)) + Pushed(RunError(src \o "write", chunk))

\* C13 as the claim states it: when the speech engine (or the screen-text
\* extractor) fails for a chunk, exactly one error is pushed onto the
\* error channel for that task, the placeholder line is appended under the
\* chunk's header in place of the transcript, the other task of the chunk
\* and all later chunks are still processed (processChunk is never stuck:
\* while the main goroutine waits in it some task can take a step), and
\* the entries of the other chunks keep their real transcripts.  The code
\* blocks a task for ever on the send that finds ErrorChannelCap errors
\* pending.
C13_FailureDoesNotStopRun ==
    fn = "batch" =>
        /\ \A c \in DOMAIN chunks :
              /\ (Pushed(RunError("audio", chunks[c])) > 0
                    /\ PastWrite(c, audioPc)) =>
                    /\ TaskErrors("audio", chunks[c]) = 1
                    /\ \E i \in DOMAIN audioOutputFile :
                          audioOutputFile[i] =
                              ChunkEntry(chunks[c], AudioPlaceholder(chunks[c]))
              /\ (Pushed(RunError("video", chunks[c])) > 0
                    /\ PastWrite(c, videoPc)) =>
                    /\ TaskErrors("video", chunks[c]) = 1
                    /\ \E i \in DOMAIN videoOutputFile :
                          videoOutputFile[i] =
                              ChunkEntry(chunks[c], VideoPlaceholder(chunks[c]))
        /\ \A i \in DOMAIN audioOutputFile :
              LET e == audioOutputFile[i] IN
              e.kind = "chunk" =>
              EntryMatchesOutcome(e, "audio", AudioPlaceholder(ChunkOf(e)),
                                  {<<"speech">>})
        /\ \A i \in DOMAIN videoOutputFile :
              LET e == videoOutputFile[i] IN
              e.kind = "chunk" =>
              EntryMatchesOutcome(e, "video", VideoPlaceholder(ChunkOf(e)),
                                  {<<"x">>, <<>>})
        /\ pc = "wait" => ENABLED BatchNext

\* what holds of the failure handling in every run, as a safety statement:
\* an error is never pushed twice, an entry holds the placeholder exactly
\* when the error of its task was pushed and the engine's text otherwise,
\* the failed task goes on to its append with the placeholder as its
\* transcript, and when the appends succeed every chunk has its entry in
\* both files once the chunk loop has ended.
C13_FailurePlaceholder ==
    fn = "batch" =>
        /\ \A i \in DOMAIN errorChannel : Pushed(errorChannel[i]) = 1
        /\ \A i \in DOMAIN logged : Pushed(logged[i]) = 1
        /\ \A i \in DOMAIN audioOutputFile :
              LET e == audioOutputFile[i] IN
              e.kind = "chunk" =>
              EntryMatchesOutcome(e, "audio", AudioPlaceholder(ChunkOf(e)),
                                  {<<"speech">>})
        /\ \A i \in DOMAIN videoOutputFile :
              LET e == videoOutputFile[i] IN
              e.kind = "chunk" =>
              EntryMatchesOutcome(e, "video", VideoPlaceholder(ChunkOf(e)),
                                  {<<"x">>, <<>>})
        /\ (pc = "wait" /\ Pushed(RunError("audio", CurChunk)) = 1) =>
              /\ audioPc \in {"write", "sendwriteerr", "remove", "done"}
              /\ audioTranscript = AudioPlaceholder(CurChunk)
        /\ (pc = "wait" /\ Pushed(RunError("video", CurChunk)) = 1) =>
              /\ videoPc \in {"write", "sendwriteerr", "remove", "done"}
              /\ videoTranscript = VideoPlaceholder(CurChunk)
        /\ (diskOk /\ pc \in {"summarize", "markers"}) =>
              \A c \in DOMAIN chunks :
                  /\ Appended(audioOutputFile, chunks[c])
                  /\ Appended(videoOutputFile, chunks[c])

\* the speech engine failed for the first chunk of a two-chunk video: one
\* error was pushed, the placeholder is the first audio entry, the screen
\* entry of the same chunk and the audio entry of the second chunk are real
C13_Witness ==
    /\ fn = "batch" /\ pc = "summarize" /\ Len(chunks) = 2
    /\ errorChannel = <<RunError("audio", chunks[1])>>
    /\ Len(audioOutputFile) = 2 /\ Len(videoOutputFile) = 2
    /\ audioOutputFile[1].Text = AudioPlaceholder(chunks[1])
    /\ videoOutputFile[1].Text = <<"x">>
    /\ audioOutputFile[2].Text = <<"speech">>

\* every error ever sent, in the order of the sends: the channel is a FIFO
\* queue and the drain logs from its head
Sent == logged \o errorChannel

\* C14: the error channel is never read before the processing of the last
\* video has ended; it is closed only after every producer task has
\* finished, and no send happens on the closed channel; every error that
\* was pushed is logged exactly once in the final drain: a step either
\* sends one error on the open channel or moves the head of the closed
\* channel to the log, nothing is dropped, and the drain ends on the empty
\* channel.
C14_DrainAfterProducers ==
    /\ [](fn = "batch" =>
            /\ logged # <<>> => chClosed
            /\ chClosed => /\ pc \in {"drain", "done"}
                            /\ videoIndex = numVideos
                            /\ ~TaskAlive
            /\ \A i \in DOMAIN Sent : Occurrences(Sent, Sent[i]) = 1
            /\ pc = "done" => (chClosed /\ errorChannel = <<>>))
    /\ [][/\ Sent' # Sent =>
              /\ ~chClosed /\ ~chClosed'
              /\ Len(Sent') = Len(Sent) + 1
              /\ SubSeq(Sent', 1, Len(Sent)) = Sent
              /\ UNCHANGED logged
          /\ logged' # logged =>
              /\ chClosed /\ errorChannel # <<>>
              /\ logged' = Append(logged, Head(errorChannel))
              /\ Sent' = Sent
         ]_vars

\* the drain has ended after two errors of different tasks were pushed:
\* both are in the log, in the order of the sends
C14_Witness ==
    /\ fn = "batch" /\ pc = "done" /\ errorChannel = <<>>
    /\ Len(logged) = 2
    /\ logged[1].src = "video" /\ logged[2].src = "audio"

\* C15: if creating any of the three output files of video v fails, video
\* v is aborted and the orchestrator proceeds to video v+1; only a failure
\* to access the top-level input path ends the whole run.  Stated as the
\* claim states it: the process exits only before any video was found.
\* The code calls log.Fatalf on a failed os.Create, which exits the
\* process; the `continue` after it is never reached.
C15_CreateFailureSkipsVideo ==
    (fn = "batch" /\ pc = "fatal") => numVideos = 0

\* the videos whose three output files were created
VideosCreated ==
    IF pc \in {"chunking", "chunks", "wait", "summarize", "markers"}
    THEN videoIndex + 1
    ELSE videoIndex

\* C16: if creating any of the three output files of a video fails, the
\* whole run terminates at once with a non-zero status: no later video is
\* started (every video reached had the files of all videos before it
\* created, and the exited process takes no step) and the errors already
\* collected on the error channel are never drained or logged.
C16_CreateFailureIsFatal ==
    fn = "batch" =>
        /\ pc \notin {"fatal", "done"} => openHandles = 3 * VideosCreated
        /\ pc = "fatal" =>
              /\ ExitStatus = 1
              /\ ~ENABLED BatchNext
              /\ logged = <<>> /\ ~chClosed
              /\ numVideos > 0 =>
                    /\ videoIndex < numVideos
                    /\ openHandles \in {3 * videoIndex + k : k \in 0..2}

\* the audio output file of the second video could not be created: the
\* process has exited with the error of the first video still in the
\* channel and nothing logged
C16_Witness ==
    /\ fn = "batch" /\ pc = "fatal" /\ numVideos = 2 /\ videoIndex = 1
    /\ openHandles = 4
    /\ errorChannel # <<>> /\ logged = <<>>

\* the file holds a completion marker
HasMarker(file) == \E i \in DOMAIN file : file[i].kind = "marker"

\* the chunk files of one kind that exist for the video
ChunkFiles(files, vi, kind) ==
    {f \in files : f.kind = kind /\ f.video = vi}

\* C17: if segmentation of video v fails or reading back a transcript file
\* fails, then for video v no further chunk is processed, no summarization
\* call is dispatched and no completion marker is written to any of its
\* three files, and the orchestrator proceeds to video v+1; the run still
\* ends by draining the error channel and returning without error.  The
\* chunk loop is entered only with a complete segmentation (the chunk
\* records are those of the chunk files cut); the step that leaves the video
\* from the segmentation or from the read-back is the `continue`: it moves
\* to the next video with no task alive, no prompt built, no summary text
\* and no marker in the files and changes none of them; after the last
\* video the channel is closed and drained, and the return is not an exit
\* with an error status.
C17_SetupFailureSkipsVideo ==
    /\ [][/\ (pc = "chunking" /\ pc' = "chunks") =>
              /\ ChunkFiles(fs', videoIndex + 1, "mp4")
                    = {chunks'[c].VideoPath : c \in DOMAIN chunks'}
              /\ ChunkFiles(fs', videoIndex + 1, "wav")
                    = {chunks'[c].AudioPath : c \in DOMAIN chunks'}
          /\ (pc \in {"chunking", "chunks"} /\ pc' = "video") =>
              /\ videoIndex' = videoIndex + 1
              /\ ~TaskAlive /\ ci' = ci
              /\ combinedPrompt = <<>> /\ combinedPrompt' = <<>>
              /\ outputFile' = <<>>
              /\ ~HasMarker(audioOutputFile') /\ ~HasMarker(videoOutputFile')
              /\ UNCHANGED <<outputFile, audioOutputFile, videoOutputFile,
                             errorChannel, logged, chClosed, openHandles>>
          /\ (pc \in {"chunking", "chunks"}) =>
                pc' \in {"chunks", "wait", "summarize", "video"}
         ]_vars
    /\ [](fn = "batch" =>
            /\ (pc = "video" /\ videoIndex < numVideos)
                  => ENABLED CreateOutputFiles
            /\ (pc = "video" /\ videoIndex = numVideos)
                  => ENABLED CloseChannel
            /\ pc = "drain" => ENABLED (Drain \/ Finish)
            /\ pc = "done" => (ExitStatus = 0 /\ errorChannel = <<>>))

\* the second cut of the first video failed: the video was left with its
\* three files empty and the first chunk's files still in the scratch
\* directory, and the second video is next
C17_Witness ==
    /\ fn = "batch" /\ pc = "video" /\ videoIndex = 1 /\ numVideos = 2
    /\ ChunkVideoPath(1, 0) \in fs /\ chunks = <<>>
    /\ outputFile = <<>> /\ audioOutputFile = <<>>
    /\ videoOutputFile = <<>>

\* the completion markers of a file
Markers(file) == SelectSeq(file, LAMBDA e : e.kind = "marker")

\* the file holds at most one marker, that of the current video, as its
\* last entry
MarkerLast(file, vi) ==
    /\ Len(Markers(file)) <= 1
    /\ HasMarker(file) => file[Len(file)] = MarkerEntry(vi)

\* C19 as the claim states it: for every video whose segmentation and
\* transcript read-back succeed, each of its three output files receives
\* exactly one completion marker, appended only after the summarization
\* call has returned: the step after the summarization appends the marker
\* of the video to each of the three files, and a video that was
\* summarized is left with the marker as the last entry of each file.
\* The code ignores the results of the three Fprintf calls (main.go
\* 894-896): when they fail the video ends with no marker in its files.
C19_MarkerInEveryFile ==
    [][pc = "markers" =>
          /\ pc' = "video" /\ videoIndex' = videoIndex + 1
          /\ outputFile' = Append(outputFile, MarkerEntry(videoIndex + 1))
          /\ audioOutputFile' =
                Append(audioOutputFile, MarkerEntry(videoIndex + 1))
          /\ videoOutputFile' =
                Append(videoOutputFile, MarkerEntry(videoIndex + 1))
      ]_vars

\* C19, amended: for every video whose segmentation and transcript
\* read-back succeed, each of its three output files receives exactly one
\* completion marker, or none when the append of the marker fails, and a
\* marker is appended only after the summarization call has returned,
\* whether it streamed text or returned the empty string: once the
\* read-back has succeeded the summarization call is made, it writes no
\* marker, and the step after its return appends one marker to each of the
\* three files, or leaves the files as they are when the appends fail, and
\* ends the video; no other step changes the markers of a file, so no file
\* ever holds two.
C19_OneMarkerAfterSummary ==
    /\ [][/\ pc = "summarize" =>
              /\ pc' = "markers"
              /\ UNCHANGED <<audioOutputFile, videoOutputFile, videoIndex>>
              /\ Markers(outputFile') = <<>>
          /\ pc = "markers" =>
              /\ pc' = "video" /\ videoIndex' = videoIndex + 1
              /\ IF diskOk
                 THEN /\ outputFile' =
                            Append(outputFile, MarkerEntry(videoIndex + 1))
                      /\ audioOutputFile' =
                            Append(audioOutputFile, MarkerEntry(videoIndex + 1))
                      /\ videoOutputFile' =
                            Append(videoOutputFile, MarkerEntry(videoIndex + 1))
                 ELSE UNCHANGED <<outputFile, audioOutputFile,
                                  videoOutputFile>>
          /\ (pc # "markers" /\ pc # "video") =>
              /\ Markers(outputFile') = Markers(outputFile)
              /\ Markers(audioOutputFile') = Markers(audioOutputFile)
              /\ Markers(videoOutputFile') = Markers(videoOutputFile)
         ]_vars
    /\ [](fn = "batch" =>
            /\ MarkerLast(outputFile, videoIndex)
            /\ MarkerLast(audioOutputFile, videoIndex)
            /\ MarkerLast(videoOutputFile, videoIndex)
            /\ (HasMarker(outputFile) \/ HasMarker(audioOutputFile)
                    \/ HasMarker(videoOutputFile))
                  => (diskOk /\ pc \in {"video", "drain", "done", "fatal"}))

\* the summarization of the first video returned the empty string after
\* exhausting its retries: the summary file holds the marker alone, the
\* transcript files hold their chunk entry and then the marker
C19_Witness ==
    /\ fn = "batch" /\ pc = "video" /\ videoIndex = 1 /\ Len(chunks) = 1
    /\ outputFile = <<MarkerEntry(1)>>
    /\ Len(audioOutputFile) = 2 /\ audioOutputFile[2] = MarkerEntry(1)
    /\ Len(videoOutputFile) = 2 /\ videoOutputFile[2] = MarkerEntry(1)

\* the prompt carries the audio content and, after it, the screen-text
\* content, each in full as one formatted operand
CarriesBoth(prompt, audioContent, videoContent) ==
    \E i, j \in DOMAIN prompt :
        /\ i < j
        /\ prompt[i].piece \in {"operand", "%!(EXTRA string)"}
        /\ prompt[j].piece \in {"operand", "%!(EXTRA string)"}
        /\ prompt[i].content = audioContent
        /\ prompt[j].content = videoContent

\* C20 as the claim states it: a video whose segmentation succeeds never
\* ends without its summarization, and the prompt of the summarization is
\* built from transcript files that hold all N chunk entries each.  The
\* chunk loop is entered only when the segmentation succeeded; the code
\* leaves the video from the read-back, without a summarization, when
\* os.ReadFile fails, and it builds the prompt from files that lack the
\* entries whose Fprintf failed (main.go 706, 724).
C20_SegmentationImpliesSummary ==
    [][/\ ~(pc = "chunks" /\ pc' = "video")
       /\ (pc # "summarize" /\ pc' = "summarize") =>
             /\ Len(ChunkEntries(audioOutputFile)) = Len(chunks)
             /\ Len(ChunkEntries(videoOutputFile)) = Len(chunks)
      ]_vars

\* C20, amended: for every video whose segmentation and transcript
\* read-back succeed, the final summarization is dispatched exactly once,
\* only after the last chunk's two tasks have joined, with a prompt built
\* from the complete content of both transcript files (all N chunk entries
\* each, less the entries whose append failed and was reported) and with
\* the summary file as sink, however many chunk tasks failed: every chunk
\* has its entry in each file or the write error of its task in the
\* channel, and no file holds more than N; the prompt is built on the step into
\* the summarization, taken after the chunk loop with no task alive and
\* every chunk artifact removed; the summarization step writes summary
\* lines of this video to the summary file and nothing to the transcript
\* files, and is followed by the markers and the next video, so it is not
\* taken twice for a video.
C20_SummaryOncePerVideo ==
    /\ [][/\ (pc # "summarize" /\ pc' = "summarize") =>
              /\ pc = "chunks" /\ ci = Len(chunks) /\ ~TaskAlive
              /\ \A c \in DOMAIN chunks :
                    /\ RemoveCalls(chunks[c].AudioPath) = 1
                    /\ RemoveCalls(chunks[c].VideoPath) = 1
              /\ UNCHANGED <<outputFile, audioOutputFile, videoOutputFile,
                             videoIndex>>
              /\ outputFile = <<>>
              /\ CarriesBoth(combinedPrompt', audioOutputFile,
                             videoOutputFile)
              /\ Len(ChunkEntries(audioOutputFile)) <= Len(chunks)
              /\ Len(ChunkEntries(videoOutputFile)) <= Len(chunks)
              /\ \A c \in DOMAIN chunks :
                    /\ AppendMade(audioOutputFile, "audiowrite", chunks[c])
                    /\ AppendMade(videoOutputFile, "videowrite", chunks[c])
          /\ pc = "summarize" =>
              /\ pc' = "markers"
              /\ UNCHANGED <<combinedPrompt, audioOutputFile,
                             videoOutputFile, videoIndex>>
              /\ Len(outputFile') >= Len(outputFile)
              /\ \A i \in DOMAIN outputFile' :
                    /\ outputFile'[i].kind = "summary"
                    /\ outputFile'[i].VideoIndex = videoIndex + 1
          /\ pc = "markers" =>
              (pc' = "video" /\ videoIndex' = videoIndex + 1)
          /\ videoIndex' >= videoIndex
         ]_vars
    /\ [](fn = "batch" =>
            /\ pc = "summarize" =>
                  /\ ENABLED Summarize
                  /\ CarriesBoth(combinedPrompt, audioOutputFile,
                                 videoOutputFile)
            /\ pc \in {"chunking", "chunks", "wait"} => combinedPrompt = <<>>)

\* both tasks of the only chunk failed and the summarization is about to be
\* dispatched: its prompt carries the two placeholder entries
C20_Witness ==
    /\ fn = "batch" /\ pc = "summarize" /\ Len(chunks) = 1
    /\ Len(errorChannel) = 2
    /\ audioOutputFile = <<ChunkEntry(chunks[1], AudioPlaceholder(chunks[1]))>>
    /\ videoOutputFile = <<ChunkEntry(chunks[1], VideoPlaceholder(chunks[1]))>>
    /\ CarriesBoth(combinedPrompt, audioOutputFile, videoOutputFile)

\* the operand printed under a heading of the prompt: the piece that
\* follows the heading is the verb's place
SectionFilledBy(prompt, heading, content) ==
    \E i \in DOMAIN prompt :
        /\ prompt[i] = Lit(heading)
        /\ i + 1 \in DOMAIN prompt
        /\ prompt[i + 1] = Operand(content)

\* C21 as the claim states it: in the combined summarization prompt the
\* audio transcript fills the 'RAW TRANSCRIPTION of Audio' section and the
\* screen-text transcript fills the 'RAW TRANSCRIPTION of Video Text'
\* section, also when the user context is the empty string (the value main
\* passes).  The code passes three operands to the two-verb template.
C21_TranscriptsFillTheirSections ==
    (fn = "batch" /\ pc = "summarize") =>
        /\ SectionFilledBy(combinedPrompt,
                           "--- RAW TRANSCRIPTION of Audio ---",
                           audioOutputFile)
        /\ SectionFilledBy(combinedPrompt,
                           "--- RAW TRANSCRIPTION of Video Text ---",
                           videoOutputFile)

\* C26: at any time at most one video and at most one chunk of that video
\* is being processed, and at most two extraction tasks (one audio, one
\* screen-text) are alive; video v+1 is not started before the chunk loop,
\* the summarization and the markers of video v are finished.  Tasks are
\* alive only inside processChunk, for the current chunk of the current
\* video, and are started as a pair when none is alive; the chunks and the
\* transcript entries at hand are those of the current video; the loop
\* goes to the next video from the end of an iteration only (after the
\* markers, or where a failed segmentation or read-back leaves it), with
\* no task alive, and to the next chunk only through the join.
C26_OneVideoOneChunk ==
    /\ [](fn = "batch" =>
            /\ TaskAlive =>
                  /\ pc = "wait" /\ videoIndex < numVideos
                  /\ ci < Len(chunks)
                  /\ audioPc # "idle" /\ videoPc # "idle"
                  /\ CurChunk.VideoIndex = videoIndex + 1
                  /\ CurChunk.ChunkNum = ci
            /\ pc \in {"chunks", "wait", "summarize", "markers"} =>
                  /\ \A c \in DOMAIN chunks :
                        chunks[c].VideoIndex = videoIndex + 1
                  /\ \A i \in DOMAIN audioOutputFile :
                        audioOutputFile[i].VideoIndex = videoIndex + 1
                  /\ \A i \in DOMAIN videoOutputFile :
                        videoOutputFile[i].VideoIndex = videoIndex + 1)
    /\ [][/\ (audioPc = "idle" /\ audioPc' # "idle") =>
              /\ pc = "chunks" /\ pc' = "wait" /\ ~TaskAlive
              /\ videoPc' # "idle"
          /\ (videoPc = "idle" /\ videoPc' # "idle") =>
              /\ pc = "chunks" /\ pc' = "wait" /\ ~TaskAlive
              /\ audioPc' # "idle"
          /\ videoIndex' # videoIndex =>
              /\ videoIndex' = videoIndex + 1
              /\ ~TaskAlive /\ pc' = "video"
              /\ \/ pc = "markers"
                 \/ pc = "chunking"
                 \/ pc = "chunks" /\ ci = Len(chunks)
          /\ ci' # ci =>
              \/ /\ ci' = ci + 1 /\ pc = "wait" /\ pc' = "chunks"
                 /\ audioPc = "done" /\ videoPc = "done"
              \/ ci' = 0 /\ pc = "video" /\ ~TaskAlive
          /\ (pc = "video" /\ pc' # "video") => ~TaskAlive
         ]_vars

\* the two tasks of the first chunk of the second video are at work; the
\* first video is finished, an error of its chunk is in the channel
C26_Witness ==
    /\ fn = "batch" /\ pc = "wait" /\ videoIndex = 1 /\ ci = 0
    /\ audioPc = "write" /\ videoPc = "transcribe"
    /\ CurChunk.VideoIndex = 2
    /\ \E i \in DOMAIN errorChannel : errorChannel[i].VideoIndex = 1
    /\ audioOutputFile = <<>> /\ videoOutputFile = <<>>

\* the chunk loop of the current video has ended
ChunkLoopEnded ==
    \/ pc = "chunks" /\ ci = Len(chunks)
    \/ pc \in {"summarize", "markers"}

\* C28 as the claim states it: after the chunk loop of a successfully
\* segmented video has ended, the scratch directory that chunkVideo created
\* for the video no longer exists.  The code removes the directory on a
\* probe failure only; nothing removes it after the chunks were consumed.
C28_ScratchDirRemoved ==
    (fn = "batch" /\ ChunkLoopEnded) => ChunkTempDir(videoIndex + 1) \notin fs

\* transcribeVideoLLM in one environment: an error comes from a failed
\* frame extraction of the fallback only, and a fallback whose frames all
\* fail (or that finds none) gives the empty string and a nil error
ErrorOnlyFromExtraction(env) ==
    LET r == transcribeVideoLLM(env)
        ef == extractFrames(env.extract)
    IN /\ r.err => (FallbackRan(r) /\ ef.err)
       /\ (FallbackRan(r) /\ ~ef.err
             /\ \A i \in DOMAIN env.delivered : env.delivered[i].err)
            => (r.text = <<>> /\ ~r.err)

\* C29 as the claim states it: transcribeVideoLLM returns a non-nil error
\* only when the fallback ran and the frame extraction failed; when it
\* returns the empty string with a nil error, processChunk then appends
\* the chunk header with empty text, pushes no error and writes no
\* placeholder: the write step of a task that holds the empty transcript
\* appends the entry and leads to os.Remove, and no error of the task for
\* a chunk is ever pushed while its transcript is the empty string.  When
\* the Fprintf of main.go 724 fails the code appends nothing and pushes
\* the write error.
C29_EmptyEntryAppended ==
    /\ [](fn = "batch" =>
            /\ videoPc = "transcribe" =>
                  \A env \in BatchScreenEnvs : ErrorOnlyFromExtraction(env)
            /\ (videoPc \in {"write", "sendwriteerr", "remove", "done"}
                  /\ videoTranscript = <<>>) =>
                  TaskErrors("video", CurChunk) = 0)
    /\ [][(videoPc = "write" /\ videoPc' # "write"
             /\ videoTranscript = <<>>) =>
              /\ UNCHANGED errorChannel
              /\ videoOutputFile' =
                    Append(videoOutputFile, ChunkEntry(CurChunk, <<>>))
              /\ videoPc' = "remove"
         ]_vars

\* C29, amended: transcribeVideoLLM returns a non-nil error only when the
\* fallback ran and the frame extraction failed; when the fallback runs
\* and every frame's OCR fails (or no frame exists) it returns the empty
\* string with a nil error, and processChunk then appends the chunk header
\* with empty text, pushes no error and writes no placeholder, unless the
\* append itself fails: then nothing is appended and the write error is
\* the one error pushed.  Where the screen task makes the call this holds
\* of every environment it can meet; the task goes on with what the call
\* returned, and an empty transcript without error is appended as it is,
\* with no error of the task in the channel; when the append fails the
\* file is left as it is and the next step of the task sends the write
\* error, the only error of the task for the chunk.
C29_EmptyTextPassedThrough ==
    /\ [](fn = "batch" =>
            /\ videoPc = "transcribe" =>
                  \A env \in BatchScreenEnvs : ErrorOnlyFromExtraction(env)
            /\ \A i \in DOMAIN videoOutputFile :
                  LET e == videoOutputFile[i] IN
                  (e.kind = "chunk" /\ e.Text = <<>>) =>
                      Pushed(RunError("video", ChunkOf(e))) = 0)
    /\ [][/\ (videoPc = "transcribe" /\ videoPc' # "transcribe") =>
              /\ \E env \in BatchScreenEnvs :
                    LET r == transcribeVideoLLM(env) IN
                    /\ videoTranscript' = r.text
                    /\ videoPc' = (IF r.err THEN "senderr" ELSE "write")
              /\ UNCHANGED <<errorChannel, videoOutputFile>>
          /\ (videoPc = "write" /\ videoPc' # "write"
                /\ videoTranscript = <<>>) =>
              /\ Pushed(RunError("video", CurChunk)) = 0
              /\ UNCHANGED errorChannel
              /\ IF diskOk
                 THEN /\ videoOutputFile' =
                           Append(videoOutputFile, ChunkEntry(CurChunk, <<>>))
                      /\ videoPc' = "remove"
                 ELSE /\ UNCHANGED videoOutputFile
                      /\ videoPc' = "sendwriteerr"
          /\ (videoPc = "sendwriteerr" /\ videoPc' # "sendwriteerr"
                /\ videoTranscript = <<>>) =>
              /\ TaskErrors("video", CurChunk) = 0
              /\ errorChannel' =
                    Append(errorChannel, RunError("videowrite", CurChunk))
              /\ UNCHANGED videoOutputFile
              /\ videoPc' = "remove"
         ]_vars

\* the screen task of the first chunk got the empty string without error:
\* the entry with empty text is in the file and no error was pushed
C29_Witness ==
    /\ fn = "batch" /\ pc = "wait" /\ ci = 0
    /\ videoPc = "remove"
    /\ videoOutputFile = <<ChunkEntry(CurChunk, <<>>)>>
    /\ errorChannel = <<>>

\* the paths a step calls os.Remove on
DeletedNow == {p \in DOMAIN removed' : removed'[p] > RemoveCalls(p)}

\* the task holds its artifact: from its start to its os.Remove
InUse(taskPc) ==
    taskPc \in {"transcribe", "senderr", "write", "sendwriteerr", "remove"}

\* C34 as stated: a chunk's video-only artifact is deleted only after
\* transcribeVideoLLM has returned and the chunk's screen-text entry has
\* been appended, a chunk's audio artifact only after the speech engine has
\* returned and the audio entry has been appended, and neither task deletes
\* the other task's artifact.  Every os.Remove is the last step of the task
\* that owns the path, with the entry of the chunk in that task's file.
C34_DeletedAfterAppended ==
    [][\A p \in DeletedNow :
          \/ /\ p = CurChunk.VideoPath /\ videoPc = "remove"
             /\ audioPc' = audioPc
             /\ Appended(videoOutputFile, CurChunk)
          \/ /\ p = CurChunk.AudioPath /\ audioPc = "remove"
             /\ videoPc' = videoPc
             /\ Appended(audioOutputFile, CurChunk)]_vars

\* C34, amended: a chunk's video-only artifact is deleted only after
\* transcribeVideoLLM (including any OCR fallback that reads it) has
\* returned and the chunk's screen-text entry has been appended or its
\* failed append reported, and a chunk's audio artifact only after the
\* speech engine has returned and the audio entry has been appended or its
\* failed append reported; neither task deletes the other task's artifact.
\* While a task is between its start and its os.Remove, its artifact
\* exists and no os.Remove was called on it.
C34_DeletedAfterAppendMade ==
    /\ [](fn = "batch" =>
            /\ InUse(videoPc) => /\ CurChunk.VideoPath \in fs
                                 /\ RemoveCalls(CurChunk.VideoPath) = 0
            /\ InUse(audioPc) => /\ CurChunk.AudioPath \in fs
                                 /\ RemoveCalls(CurChunk.AudioPath) = 0)
    /\ [][\A p \in DeletedNow :
             \/ /\ p = CurChunk.VideoPath /\ videoPc = "remove"
                /\ audioPc' = audioPc
                /\ AppendMade(videoOutputFile, "videowrite", CurChunk)
             \/ /\ p = CurChunk.AudioPath /\ audioPc = "remove"
                /\ videoPc' = videoPc
                /\ AppendMade(audioOutputFile, "audiowrite", CurChunk)]_vars

\* the video task of a chunk has appended its entry and removed its file
\* while the speech engine still runs on the audio file of the chunk
C34_Witness ==
    /\ fn = "batch" /\ pc = "wait" /\ diskOk
    /\ videoPc = "done" /\ audioPc = "transcribe"
    /\ Appended(videoOutputFile, CurChunk)
    /\ ~Appended(audioOutputFile, CurChunk)
    /\ CurChunk.VideoPath \notin fs /\ RemoveCalls(CurChunk.VideoPath) = 1
    /\ CurChunk.AudioPath \in fs

\* C36: the three output file handles of a video are not closed when that
\* video's processing ends; they are closed only when VideoSummary returns,
\* so after k videos have passed output-file creation there are 3k output
\* file handles open.  While VideoSummary runs the handles open are three
\* for every video whose files were created, the step to the next video
\* closes none, and the only step that closes a handle is the return, which
\* closes all.
C36_HandlesOpenUntilReturn ==
    /\ [](fn = "batch" /\ pc \notin {"fatal", "done"}
            => openHandles = 3 * VideosCreated)
    /\ [][/\ videoIndex' # videoIndex => openHandles' = openHandles
          /\ openHandles' < openHandles =>
                (pc = "drain" /\ pc' = "done" /\ openHandles' = 0)]_vars

\* both videos of the run have been processed and the channel is closed:
\* the six files are still open
C36_Witness ==
    /\ fn = "batch" /\ pc = "drain" /\ chClosed
    /\ numVideos = 2 /\ videoIndex = 2
    /\ openHandles = 6

-----------------------------------------------------------------------------
(* Claims about TranscribeVideoTesseractAPI (SpecOcr) *)

OcrReturned == fn = "TranscribeVideoTesseractAPI" /\ ocrPc = "returned"

\* the frames of the call, and those whose recognition succeeds
Frames == DOMAIN arg.frames
Succeeding == {f \in Frames : arg.frames[f] \in {"ok", "blank"}}

\* C22: for any list of frames and any subset of failing frames,
\* TranscribeVideoTesseractAPI processes every frame (every worker ran to
\* its end and sent its one result), returns a nil error and a text that
\* holds the recognized text of exactly the succeeding frames, each once
\* and each followed by a newline, and nothing from the failing frames;
\* when every frame fails the text is the empty string.
C22_TextOfSucceedingFrames ==
    OcrReturned =>
        LET text == ret[1].text IN
        /\ ~ret[1].err
        /\ \A f \in Frames :
              /\ workerPc[f] = "done"
              /\ Occurrences(sentResults, WorkerResult(f, arg.frames[f])) = 1
              /\ Occurrences(text, ToString(f)) =
                    (IF arg.frames[f] = "ok" THEN 1 ELSE 0)
              /\ arg.frames[f] = "ok" =>
                    \E i \in DOMAIN text :
                        /\ i + 2 \in DOMAIN text
                        /\ SubSeq(text, i, i + 2) =
                              <<"frame", ToString(f)>> \o Newline
        /\ Len(sentResults) = Len(arg.frames)
        /\ Occurrences(text, "\n") = Cardinality(Succeeding)
        /\ Len(text) = Occurrences(text, "\n")
                         + 2 * Occurrences(text, "frame")
        /\ Succeeding = {} => text = <<>>

\* the first of two frames cannot be decoded, the second is recognized:
\* the call has returned the text of the second frame only
C22_Witness ==
    /\ OcrReturned
    /\ arg.frames = <<"decode", "ok">>
    /\ ret[1].text = <<"frame", "2", "\n">>
    /\ ~ret[1].err

\* the workers that have been started and have not released their slot
HoldingSlot ==
    {f \in DOMAIN workerPc :
        workerPc[f] \in {"open", "ocr", "remove", "release"}}

\* C23: at every moment of a call the number of OCR workers that have been
\* started and have not yet released their slot is at most min(available
\* cores, 8); the slots taken are those of these workers and the one the
\* caller holds for the worker it is about to start.
C23_BoundedWorkers ==
    fn = "TranscribeVideoTesseractAPI" =>
        /\ Cardinality(HoldingSlot) <= numWorkers(arg.numCPU)
        /\ numWorkers(arg.numCPU) <= 8
        /\ numWorkers(arg.numCPU) <= arg.numCPU
        /\ guard = Cardinality(HoldingSlot) + (IF ocrPc = "go" THEN 1 ELSE 0)
        /\ guard <= numWorkers(arg.numCPU)

\* one core and two frames: the worker of the first frame holds the only
\* slot and the caller waits for it before it starts the second
C23_Witness ==
    /\ fn = "TranscribeVideoTesseractAPI" /\ arg.numCPU = 1
    /\ Len(arg.frames) = 2
    /\ ocrPc = "acquire" /\ frameIdx = 1 /\ wg = 2
    /\ HoldingSlot = {1}
    /\ ~ENABLED AcquireSlot

\* C24: every temp file created by a worker has been removed when that
\* worker finishes, on every outcome after its creation; no temp file
\* exists when TranscribeVideoTesseractAPI returns.  A temp file exists
\* only while its worker is between os.CreateTemp and its deferred
\* os.Remove, and every worker that created one passes the removal.
C24_TempFilesRemoved ==
    fn = "TranscribeVideoTesseractAPI" =>
        /\ \A f \in DOMAIN workerPc :
              /\ f \in tempFiles <=> workerPc[f] \in {"ocr", "remove"}
              /\ workerPc[f] \in {"ocr", "remove"} =>
                    arg.frames[f] \in TempCreated
        /\ ocrPc \in {"collect", "returned"} => tempFiles = {}

\* the temp file of the first frame could not be closed: its worker has
\* sent the error and removed the file, while the temp file of the second
\* frame is in use
C24_Witness ==
    /\ fn = "TranscribeVideoTesseractAPI"
    /\ Len(arg.frames) = 2 /\ arg.frames[1] = "close"
    /\ workerPc[1] = "release"
    /\ sentResults = <<WorkerResult(1, "close")>>
    /\ tempFiles = {2}

\* C25: the returned text concatenates the successful results in the
\* order in which the workers sent them (completion order): the text built
\* so far followed by what the results still in the channel contribute is
\* the concatenation over the sending order, and the returned text is that
\* concatenation.  (The witness is a call of two frames in which this
\* order is not the order of the frames.)
C25_CompletionOrder ==
    fn = "TranscribeVideoTesseractAPI" =>
        /\ ocrPc \in {"collect", "returned"} =>
              combinedTranscript \o CollectResults(frameResults)
                  = CollectResults(sentResults)
        /\ ocrPc \notin {"collect", "returned"} =>
              (frameResults = sentResults /\ combinedTranscript = <<>>)
        /\ ocrPc = "returned" =>
              ret[1].text = TranscribeVideoTesseractAPI(sentResults).text

\* both frames are recognized and the worker of the second frame sent its
\* result first: the returned text has frame 2 before frame 1
C25_Witness ==
    /\ OcrReturned
    /\ arg.frames = <<"ok", "ok">>
    /\ sentResults[1].frame = 2
    /\ ret[1].text = <<"frame", "2", "\n", "frame", "1", "\n">>

\* the worker of frame f is about to send its result
AtSend(f) ==
    \/ workerPc[f] = "open" /\ arg.frames[f] \notin TempCreated
    \/ workerPc[f] = "ocr"

\* the worker of frame f has sent its result
PastSend(f) ==
    \/ workerPc[f] \in {"remove", "release", "wgdone", "done"}

\* C35: in TranscribeVideoTesseractAPI every started worker delivers exactly
\* one result and no delivery ever blocks (the result buffer holds one slot
\* per frame), the results are read only after all workers have finished
\* and the channel is closed, so the pool terminates for any number of
\* frames and any pattern of per-frame failures: a worker at its send finds
\* room in the channel, a worker past its send has sent one result and the
\* others none, nothing is taken from the channel while a worker is alive,
\* and every call returns.
C35_PoolTerminates ==
    /\ [](fn = "TranscribeVideoTesseractAPI" =>
            /\ \A f \in Frames :
                  /\ AtSend(f) => Len(frameResults) < Len(arg.frames)
                  /\ Cardinality({i \in DOMAIN sentResults :
                                     sentResults[i].frame = f})
                       = (IF PastSend(f) THEN 1 ELSE 0)
            /\ ocrPc \in {"add", "acquire", "go", "wait"} =>
                  frameResults = sentResults
            /\ ocrPc \in {"collect", "returned"} =>
                  /\ \A f \in Frames : workerPc[f] = "done"
                  /\ wg = 0 /\ guard = 0
                  /\ Len(sentResults) = Len(arg.frames))
    /\ (fn = "TranscribeVideoTesseractAPI" => <>OcrReturned)

\* one core, two frames, the first cannot be decoded: both workers have
\* sent, both results were read and the call has returned
C35_Witness ==
    /\ OcrReturned /\ arg.numCPU = 1
    /\ arg.frames = <<"decode", "tesseract">>
    /\ Len(sentResults) = 2 /\ sentResults[1].err /\ sentResults[2].err
    /\ frameResults = <<>>
    /\ ret[1].text = <<>>

=============================================================================
